---------------------------- MODULE Spec2Model ----------------------------
(***************************************************************************)
(* A model of the clockwork chess engine (crates chess-core and uci).      *)
(*                                                                         *)
(* A Bitboard (u64) is the set of the squares whose bit is set, a Square   *)
(* is its index 0..63, an Option<T> is the empty set (None) or a singleton *)
(* (Some), a string is a sequence of one-character strings, and a Move is  *)
(* the packed u32 of moves.rs.  Position is a record with the fields of    *)
(* the Rust struct; make_move and undo_move are operators from a Position  *)
(* to the Position the call leaves behind and the Result it returns.       *)
(***************************************************************************)
EXTENDS Integers, Sequences, FiniteSets, TLC

(***************************************************************************)
(* Bounds of the model.                                                    *)
(***************************************************************************)
\* make_move and set_piece calls in one behaviour
MaxCalls == 2

\* make_move calls before a search
MaxPlies == 1

\* the deepest search, run on boards of at most SmallBoard pieces; larger
\* boards are searched to depth 1
MaxDepth == 3

SmallBoard == 4

\* the most pieces a board is set up with by set_piece
MaxPieces == 4

\* lines read by the UCI loop in one behaviour
MaxLines == 2

(***************************************************************************)
(* Option<T>                                                               *)
(***************************************************************************)
None == {}

Some(x) == {x}

is_some(o) == o # {}

unwrap(o) == CHOOSE x \in o : TRUE

\* the element of a singleton set: the({e(x) : x \in {v}}) is e(v), with v
\* evaluated once
the(S) == CHOOSE x \in S : TRUE

(***************************************************************************)
(* board.rs: Color, PieceType, Piece, Square                               *)
(***************************************************************************)
White == 0

Black == 1

Pawn == 0

Knight == 1

Bishop == 2

Rook == 3

Queen == 4

King == 5

\* the iteration order `for color in [Color::White, Color::Black]`
Colors == <<White, Black>>

\* the iteration order of the six piece types
PieceTypes == <<Pawn, Knight, Bishop, Rook, Queen, King>>

Squares == 0..63

opposite(color) == IF color = White THEN Black ELSE White

Piece_new(color, piece_type) == [color |-> color, piece_type |-> piece_type]

Square_new(file, rank) == rank * 8 + file

file_of(sq) == sq % 8

rank_of(sq) == sq \div 8

\* the byte of each character the model reads or writes
Ord(ch) ==
  CASE ch = " " -> 32 [] ch = "+" -> 43 [] ch = "-" -> 45 [] ch = "/" -> 47
    [] ch = "0" -> 48 [] ch = "1" -> 49 [] ch = "2" -> 50 [] ch = "3" -> 51
    [] ch = "4" -> 52 [] ch = "5" -> 53 [] ch = "6" -> 54 [] ch = "7" -> 55
    [] ch = "8" -> 56 [] ch = "9" -> 57
    [] ch = "B" -> 66 [] ch = "K" -> 75 [] ch = "N" -> 78 [] ch = "P" -> 80
    [] ch = "Q" -> 81 [] ch = "R" -> 82
    [] ch = "a" -> 97 [] ch = "b" -> 98 [] ch = "c" -> 99 [] ch = "d" -> 100
    [] ch = "e" -> 101 [] ch = "f" -> 102 [] ch = "g" -> 103 [] ch = "h" -> 104
    [] ch = "i" -> 105 [] ch = "k" -> 107 [] ch = "n" -> 110 [] ch = "p" -> 112
    [] ch = "q" -> 113 [] ch = "r" -> 114 [] ch = "w" -> 119 [] ch = "x" -> 120

FileChars == <<"a", "b", "c", "d", "e", "f", "g", "h">>

DigitChars == <<"0", "1", "2", "3", "4", "5", "6", "7", "8", "9">>

saturating_sub(a, b) == IF a >= b THEN a - b ELSE 0

\* Square::from_algebraic
from_algebraic(s) ==
  IF Len(s) # 2 THEN None
  ELSE LET file == saturating_sub(Ord(s[1]), 97)
           rank == saturating_sub(Ord(s[2]), 49)
       IN  IF file < 8 /\ rank < 8 THEN Some(Square_new(file, rank)) ELSE None

\* Square::to_algebraic
to_algebraic(sq) == <<FileChars[file_of(sq) + 1], DigitChars[rank_of(sq) + 2]>>

\* the squares the source names by Square::from_algebraic("..").unwrap()
a1 == unwrap(from_algebraic(<<"a", "1">>))

c1 == unwrap(from_algebraic(<<"c", "1">>))

d1 == unwrap(from_algebraic(<<"d", "1">>))

f1 == unwrap(from_algebraic(<<"f", "1">>))

g1 == unwrap(from_algebraic(<<"g", "1">>))

h1 == unwrap(from_algebraic(<<"h", "1">>))

a8 == unwrap(from_algebraic(<<"a", "8">>))

c8 == unwrap(from_algebraic(<<"c", "8">>))

d8 == unwrap(from_algebraic(<<"d", "8">>))

f8 == unwrap(from_algebraic(<<"f", "8">>))

g8 == unwrap(from_algebraic(<<"g", "8">>))

h8 == unwrap(from_algebraic(<<"h", "8">>))

\* PieceType::from_char
PieceType_from_char(ch) ==
  CASE ch \in {"P", "p"} -> Some(Pawn)
    [] ch \in {"N", "n"} -> Some(Knight)
    [] ch \in {"B", "b"} -> Some(Bishop)
    [] ch \in {"R", "r"} -> Some(Rook)
    [] ch \in {"Q", "q"} -> Some(Queen)
    [] ch \in {"K", "k"} -> Some(King)
    [] OTHER -> None

is_uppercase(ch) == Ord(ch) >= 65 /\ Ord(ch) <= 90

\* Piece::from_char
Piece_from_char(ch) ==
  LET color == IF is_uppercase(ch) THEN White ELSE Black
  IN  {Piece_new(color, t) : t \in PieceType_from_char(ch)}

\* PieceType::to_char and Piece::to_char
Piece_to_char(piece) ==
  IF piece.color = White
  THEN <<"P", "N", "B", "R", "Q", "K">>[piece.piece_type + 1]
  ELSE <<"p", "n", "b", "r", "q", "k">>[piece.piece_type + 1]

(***************************************************************************)
(* bitboard.rs                                                             *)
(***************************************************************************)
set_square(bb, sq) == bb \cup {sq}

clear_square(bb, sq) == bb \ {sq}

has_square(bb, sq) == sq \in bb

FILE_A == {sq \in Squares : sq % 8 = 0}

FILE_H == {sq \in Squares : sq % 8 = 7}

RANK_2 == {sq \in Squares : sq \div 8 = 1}

RANK_7 == {sq \in Squares : sq \div 8 = 6}

\* self.0 << 8: the bits shifted past bit 63 are lost
north(bb) == {sq + 8 : sq \in {x \in bb : x + 8 <= 63}}

\* self.0 >> 8
south(bb) == {sq - 8 : sq \in {x \in bb : x >= 8}}

east(bb) == {sq + 1 : sq \in {x \in bb : x + 1 <= 63}} \ FILE_A

west(bb) == {sq - 1 : sq \in {x \in bb : x >= 1}} \ FILE_H

northeast(bb) == east(north(bb))

northwest(bb) == west(north(bb))

southeast(bb) == east(south(bb))

southwest(bb) == west(south(bb))

\* Bitboard::lsb
lsb(bb) == IF bb = {} THEN None ELSE Some(CHOOSE sq \in bb : \A x \in bb : sq <= x)

\* Bitboard::squares: the set bits, least significant first
RECURSIVE squares(_)
squares(bb) ==
  IF bb = {} THEN <<>>
  ELSE LET sq == unwrap(lsb(bb)) IN <<sq>> \o squares(bb \ {sq})

(***************************************************************************)
(* board.rs: Board                                                         *)
(***************************************************************************)
\* Board::update_derived
update_derived(b) ==
  LET white == UNION {b.pieces[White][t] : t \in 0..5}
      black == UNION {b.pieces[Black][t] : t \in 0..5}
  IN  [pieces |-> b.pieces, white |-> white, black |-> black,
       occupied |-> white \cup black, empty |-> Squares \ (white \cup black)]

\* Board::new
Board_new ==
  [pieces |-> [c \in 0..1 |-> [t \in 0..5 |-> {}]],
   occupied |-> {}, white |-> {}, black |-> {}, empty |-> Squares]

\* the back rank of Board::starting_position, by file
back_rank_pieces == <<Rook, Knight, Bishop, Queen, King, Bishop, Knight, Rook>>

\* Board::starting_position
starting_position ==
  update_derived(
    [Board_new EXCEPT !.pieces =
      [c \in 0..1 |-> [t \in 0..5 |->
        IF t = Pawn THEN (IF c = White THEN RANK_2 ELSE RANK_7)
        ELSE {Square_new(f, IF c = White THEN 0 ELSE 7) :
                f \in {x \in 0..7 : back_rank_pieces[x + 1] = t}}]]])

\* Board::piece_at: the first of the 12 boards, White first, that holds sq
piece_at(b, sq) ==
  LET hits == {ct \in (0..1) \X (0..5) : sq \in b.pieces[ct[1]][ct[2]]}
  IN  IF hits = {} THEN None
      ELSE LET first == CHOOSE ct \in hits :
                          \A o \in hits : ct[1] * 6 + ct[2] <= o[1] * 6 + o[2]
           IN  Some(Piece_new(first[1], first[2]))

\* set_piece without clearing the square in the other boards first
set_piece_no_clear(b, sq, piece) ==
  update_derived(
    [b EXCEPT !.pieces =
      [c \in 0..1 |-> [t \in 0..5 |->
        IF piece = None THEN clear_square(b.pieces[c][t], sq)
        ELSE IF unwrap(piece) = Piece_new(c, t) THEN set_square(b.pieces[c][t], sq)
        ELSE b.pieces[c][t]]]])

\* Board::set_piece
set_piece(b, sq, piece) ==
  update_derived(
    [b EXCEPT !.pieces =
      [c \in 0..1 |-> [t \in 0..5 |->
        IF is_some(piece) /\ unwrap(piece) = Piece_new(c, t)
        THEN set_square(clear_square(b.pieces[c][t], sq), sq)
        ELSE clear_square(b.pieces[c][t], sq)]]])

piece_bitboard(b, color, piece_type) == b.pieces[color][piece_type]

color_bitboard(b, color) == IF color = White THEN b.white ELSE b.black

(***************************************************************************)
(* moves.rs: Move, a packed u32.  The fields do not overlap, so the        *)
(* bitwise or of the constructors is a sum.                                *)
(***************************************************************************)
PromotionFlag == 2 ^ 20

EnPassantFlag == 2 ^ 21

CastlingFlag == 2 ^ 22

Move_new(from, to, piece_type) == from + to * 64 + piece_type * 4096

new_promotion(from, to, piece_type, promotion) ==
  from + to * 64 + piece_type * 4096 + promotion * 65536 + PromotionFlag

new_en_passant(from, to) == from + to * 64 + Pawn * 4096 + EnPassantFlag

new_castling(from, to, color) == from + to * 64 + King * 4096 + CastlingFlag

Move_from(mv) == mv % 64

Move_to(mv) == (mv \div 64) % 64

Move_piece_type(mv) == (mv \div 4096) % 8

is_promotion(mv) == (mv \div PromotionFlag) % 2 = 1

promotion_piece(mv) ==
  IF is_promotion(mv) /\ (mv \div 65536) % 8 <= 5
  THEN Some((mv \div 65536) % 8) ELSE None

is_en_passant(mv) == (mv \div EnPassantFlag) % 2 = 1

is_castling(mv) == (mv \div CastlingFlag) % 2 = 1

\* is_capture that takes every move for a capture
is_capture_always(mv, b) == TRUE

\* Move::is_capture
is_capture(mv, b) == is_some(piece_at(b, Move_to(mv))) \/ is_en_passant(mv)

(***************************************************************************)
(* magic_simple.rs: the ray walk movegen.rs uses as `magic`                *)
(***************************************************************************)
\* one `for` loop of the ray walk: the squares from (rank, file) in
\* direction (dr, df), up to and including the first occupied one
\* a ray that stops in front of the first occupied square
RECURSIVE ray_stops_short(_, _, _, _, _)
ray_stops_short(rank, file, dr, df, occupancy) ==
  LET r == rank + dr
      f == file + df
      sq == r * 8 + f
  IN  IF r < 0 \/ r > 7 \/ f < 0 \/ f > 7 THEN {}
      ELSE IF has_square(occupancy, sq) THEN {}
      ELSE {sq} \cup ray_stops_short(r, f, dr, df, occupancy)

RECURSIVE ray(_, _, _, _, _)
ray(rank, file, dr, df, occupancy) ==
  LET r == rank + dr
      f == file + df
      sq == r * 8 + f
  IN  IF r < 0 \/ r > 7 \/ f < 0 \/ f > 7 THEN {}
      ELSE IF has_square(occupancy, sq) THEN {sq}
      ELSE {sq} \cup ray(r, f, dr, df, occupancy)

get_rook_attacks(square, occupancy) ==
  LET rank == square \div 8
      file == square % 8
  IN  ray(rank, file, 1, 0, occupancy) \cup ray(rank, file, -1, 0, occupancy)
        \cup ray(rank, file, 0, 1, occupancy) \cup ray(rank, file, 0, -1, occupancy)

get_bishop_attacks(square, occupancy) ==
  LET rank == square \div 8
      file == square % 8
  IN  ray(rank, file, 1, 1, occupancy) \cup ray(rank, file, 1, -1, occupancy)
        \cup ray(rank, file, -1, 1, occupancy) \cup ray(rank, file, -1, -1, occupancy)

get_queen_attacks(square, occupancy) ==
  get_rook_attacks(square, occupancy) \cup get_bishop_attacks(square, occupancy)

(***************************************************************************)
(* movegen.rs                                                              *)
(***************************************************************************)
knight_offsets ==
  {<<2, 1>>, <<2, -1>>, <<-2, 1>>, <<-2, -1>>, <<1, 2>>, <<1, -2>>, <<-1, 2>>, <<-1, -2>>}

king_offsets == {d \in (-1..1) \X (-1..1) : d # <<0, 0>>}

\* the body shared by compute_knight_attacks and compute_king_attacks
leaps(square, offsets) ==
  LET rank == square \div 8
      file == square % 8
  IN  {(rank + d[1]) * 8 + (file + d[2]) :
         d \in {o \in offsets : /\ rank + o[1] >= 0 /\ rank + o[1] < 8
                                /\ file + o[2] >= 0 /\ file + o[2] < 8}}

compute_knight_attacks(square) == leaps(square, knight_offsets)

compute_king_attacks(square) == leaps(square, king_offsets)

KNIGHT_ATTACKS == [square \in Squares |-> compute_knight_attacks(square)]

KING_ATTACKS == [square \in Squares |-> compute_king_attacks(square)]

generate_pawn_moves(b, color, from) ==
  IF color = White
  THEN (IF from + 8 < 64 /\ has_square(b.empty, from + 8)
        THEN {from + 8} \cup
             (IF rank_of(from) = 1 /\ from + 16 < 64 /\ has_square(b.empty, from + 16)
              THEN {from + 16} ELSE {})
        ELSE {})
       \cup (IF from + 9 < 64 /\ file_of(from) < 7 /\ has_square(b.black, from + 9)
             THEN {from + 9} ELSE {})
       \cup (IF from + 7 < 64 /\ file_of(from) > 0 /\ has_square(b.black, from + 7)
             THEN {from + 7} ELSE {})
  ELSE (IF from - 8 >= 0 /\ has_square(b.empty, from - 8)
        THEN {from - 8} \cup
             (IF rank_of(from) = 6 /\ from - 16 >= 0 /\ has_square(b.empty, from - 16)
              THEN {from - 16} ELSE {})
        ELSE {})
       \cup (IF from - 7 >= 0 /\ file_of(from) < 7 /\ has_square(b.white, from - 7)
             THEN {from - 7} ELSE {})
       \cup (IF from - 9 >= 0 /\ file_of(from) > 0 /\ has_square(b.white, from - 9)
             THEN {from - 9} ELSE {})

generate_knight_moves(b, color, from) == KNIGHT_ATTACKS[from] \ color_bitboard(b, color)

generate_bishop_moves(b, color, from) ==
  get_bishop_attacks(from, b.occupied) \ color_bitboard(b, color)

generate_bishop_attacks(b, from) == get_bishop_attacks(from, b.occupied)

generate_rook_moves(b, color, from) ==
  get_rook_attacks(from, b.occupied) \ color_bitboard(b, color)

generate_rook_attacks(b, from) == get_rook_attacks(from, b.occupied)

generate_queen_moves(b, color, from) ==
  get_queen_attacks(from, b.occupied) \ color_bitboard(b, color)

generate_king_moves(b, color, from) == KING_ATTACKS[from] \ color_bitboard(b, color)

generate_piece_moves(b, color, piece_type, from_square) ==
  (CASE piece_type = Pawn -> generate_pawn_moves(b, color, from_square)
     [] piece_type = Knight -> generate_knight_moves(b, color, from_square)
     [] piece_type = Bishop -> generate_bishop_moves(b, color, from_square)
     [] piece_type = Rook -> generate_rook_moves(b, color, from_square)
     [] piece_type = Queen -> generate_queen_moves(b, color, from_square)
     [] piece_type = King -> generate_king_moves(b, color, from_square))
  \ color_bitboard(b, color)

is_promotion_rank(square, color) ==
  IF color = White THEN square \div 8 = 7 ELSE square \div 8 = 0

\* the concatenation of Op(s[1]), Op(s[2]), ...: a nested `for` loop
\* that pushes onto one Vec
RECURSIVE flat_map(_, _)
flat_map(Op(_), s) ==
  IF s = <<>> THEN <<>> ELSE Op(Head(s)) \o flat_map(Op, Tail(s))

\* one promotion instead of four
moves_for_target_queen_only(color, piece_type, from_square, to_square) ==
  IF piece_type = Pawn /\ is_promotion_rank(to_square, color)
  THEN <<new_promotion(from_square, to_square, piece_type, Queen)>>
  ELSE <<Move_new(from_square, to_square, piece_type)>>

\* source and target exchanged
moves_for_target_reversed(color, piece_type, from_square, to_square) ==
  IF piece_type = Pawn /\ is_promotion_rank(to_square, color)
  THEN <<new_promotion(from_square, to_square, piece_type, Knight),
         new_promotion(from_square, to_square, piece_type, Bishop),
         new_promotion(from_square, to_square, piece_type, Rook),
         new_promotion(from_square, to_square, piece_type, Queen)>>
  ELSE <<Move_new(to_square, from_square, piece_type)>>

\* the moves generate_moves pushes for one (from, to) pair
moves_for_target(color, piece_type, from_square, to_square) ==
  IF piece_type = Pawn /\ is_promotion_rank(to_square, color)
  THEN <<new_promotion(from_square, to_square, piece_type, Knight),
         new_promotion(from_square, to_square, piece_type, Bishop),
         new_promotion(from_square, to_square, piece_type, Rook),
         new_promotion(from_square, to_square, piece_type, Queen)>>
  ELSE <<Move_new(from_square, to_square, piece_type)>>

\* movegen::generate_moves, in emission order
generate_moves(b, color) ==
  LET for_target(piece_type, from_square) ==
        LET one(to_square) == moves_for_target(color, piece_type, from_square, to_square)
        IN  flat_map(one, squares(generate_piece_moves(b, color, piece_type, from_square)))
      for_type(piece_type) ==
        LET one(from_square) == for_target(piece_type, from_square)
        IN  flat_map(one, squares(piece_bitboard(b, color, piece_type)))
  IN  flat_map(for_type, PieceTypes)

(***************************************************************************)
(* lib.rs: Result<T>                                                       *)
(***************************************************************************)
Ok(v) == [ok |-> TRUE, val |-> v]

Err(e) == [ok |-> FALSE, err |-> e]

(***************************************************************************)
(* position.rs: CastlingRights                                             *)
(***************************************************************************)
CastlingRights_all ==
  [white_kingside |-> TRUE, white_queenside |-> TRUE,
   black_kingside |-> TRUE, black_queenside |-> TRUE]

CastlingRights_none ==
  [white_kingside |-> FALSE, white_queenside |-> FALSE,
   black_kingside |-> FALSE, black_queenside |-> FALSE]

\* CastlingRights::update
CastlingRights_update(cr, mv, b) ==
  LET from == Move_from(mv)
      piece == piece_at(b, from)
  IN  IF piece = None THEN cr
      ELSE LET pc == unwrap(piece) IN
        CASE pc.piece_type = King /\ pc.color = White ->
               [cr EXCEPT !.white_kingside = FALSE, !.white_queenside = FALSE]
          [] pc.piece_type = King /\ pc.color = Black ->
               [cr EXCEPT !.black_kingside = FALSE, !.black_queenside = FALSE]
          [] pc.piece_type = Rook /\ pc.color = White ->
               IF from = a1 THEN [cr EXCEPT !.white_queenside = FALSE]
               ELSE IF from = h1 THEN [cr EXCEPT !.white_kingside = FALSE]
               ELSE cr
          [] pc.piece_type = Rook /\ pc.color = Black ->
               IF from = a8 THEN [cr EXCEPT !.black_queenside = FALSE]
               ELSE IF from = h8 THEN [cr EXCEPT !.black_kingside = FALSE]
               ELSE cr
          [] OTHER -> cr

(***************************************************************************)
(* position.rs: Position                                                   *)
(***************************************************************************)
\* Position::new
Position_new ==
  [board |-> starting_position, side_to_move |-> White,
   castling_rights |-> CastlingRights_all, en_passant |-> None,
   halfmove_clock |-> 0, fullmove_number |-> 1, history |-> <<>>]

\* the PositionState make_move pushes
PositionState(pos) ==
  [board |-> pos.board, castling_rights |-> pos.castling_rights,
   en_passant |-> pos.en_passant, halfmove_clock |-> pos.halfmove_clock]

abs(x) == IF x < 0 THEN -x ELSE x

\* make_normal_move that sets the en-passant target after every pawn move
make_normal_move_any_push(pos, mv) ==
  LET from == Move_from(mv)
      to == Move_to(mv)
      piece == unwrap(piece_at(pos.board, from))
  IN  [pos EXCEPT
        !.en_passant =
          IF piece.piece_type = Pawn
          THEN Some(Square_new(file_of(from),
                               IF piece.color = White THEN rank_of(from) + 1
                               ELSE rank_of(from) - 1))
          ELSE pos.en_passant,
        !.board = set_piece(set_piece(pos.board, from, None), to, Some(piece))]

\* Position::make_normal_move
make_normal_move(pos, mv) ==
  LET from == Move_from(mv)
      to == Move_to(mv)
      piece == unwrap(piece_at(pos.board, from))
      rank_diff == abs(rank_of(to) - rank_of(from))
  IN  [pos EXCEPT
        !.en_passant =
          IF piece.piece_type = Pawn /\ rank_diff = 2
          THEN Some(Square_new(file_of(from),
                               IF piece.color = White THEN rank_of(from) + 1
                               ELSE rank_of(from) - 1))
          ELSE pos.en_passant,
        !.board = set_piece(set_piece(pos.board, from, None), to, Some(piece))]

\* Position::make_en_passant_move (it returns Ok(()) always)
make_en_passant_move(pos, mv) ==
  LET from == Move_from(mv)
      to == Move_to(mv)
      piece == unwrap(piece_at(pos.board, from))
      moved == set_piece(set_piece(pos.board, from, None), to, Some(piece))
      captured_pawn_square ==
        IF piece.color = White THEN Square_new(file_of(to), rank_of(to) - 1)
        ELSE Square_new(file_of(to), rank_of(to) + 1)
  IN  [pos EXCEPT !.board = set_piece(moved, captured_pawn_square, None)]

\* castling that leaves the rook on its corner
castling_rook_squares_stay(to) ==
  CASE to = g1 -> Some(<<h1, h1>>)
    [] to = c1 -> Some(<<a1, a1>>)
    [] to = g8 -> Some(<<h8, h8>>)
    [] to = c8 -> Some(<<a8, a8>>)
    [] OTHER -> None

\* the (rook_from, rook_to) pair make_castling_move matches on `to`
castling_rook_squares(to) ==
  CASE to = g1 -> Some(<<h1, f1>>)
    [] to = c1 -> Some(<<a1, d1>>)
    [] to = g8 -> Some(<<h8, f8>>)
    [] to = c8 -> Some(<<a8, d8>>)
    [] OTHER -> None

\* Position::make_castling_move: the Position it leaves and its Result
make_castling_move(pos, mv) ==
  LET from == Move_from(mv)
      to == Move_to(mv)
      piece == unwrap(piece_at(pos.board, from))
      king_moved == set_piece(set_piece(pos.board, from, None), to, Some(piece))
      rooks == castling_rook_squares(to)
  IN  IF rooks = None
      THEN [self |-> [pos EXCEPT !.board = king_moved], result |-> "InvalidMove"]
      ELSE LET rook_from == unwrap(rooks)[1]
               rook_to == unwrap(rooks)[2]
               rook == unwrap(piece_at(king_moved, rook_from))
           IN  [self |-> [pos EXCEPT !.board =
                           set_piece(set_piece(king_moved, rook_from, None),
                                     rook_to, Some(rook))],
                result |-> "Ok"]

\* Position::make_promotion_move (it returns Ok(()) always)
make_promotion_move(pos, mv) ==
  LET from == Move_from(mv)
      to == Move_to(mv)
      piece == unwrap(piece_at(pos.board, from))
      promotion == unwrap(promotion_piece(mv))
  IN  [pos EXCEPT !.board =
        set_piece(set_piece(pos.board, from, None), to,
                  Some(Piece_new(piece.color, promotion)))]

\* the calls of make_move that end in a panic (an `expect` on None): no
\* piece on the from square, or no piece on the castling rook's corner
make_move_panics(pos, mv) ==
  \/ piece_at(pos.board, Move_from(mv)) = None
  \/ /\ ~is_en_passant(mv)
     /\ is_castling(mv)
     /\ castling_rook_squares(Move_to(mv)) # None
     /\ piece_at(set_piece(pos.board, Move_from(mv), None),
                 unwrap(castling_rook_squares(Move_to(mv)))[1]) = None
  \/ /\ ~is_en_passant(mv) /\ ~is_castling(mv) /\ is_promotion(mv)
     /\ promotion_piece(mv) = None

\* the halfmove clock make_move leaves, given the position after the move
\* was applied to the board
halfmove_after(applied, mv) ==
  IF Move_piece_type(mv) = Pawn \/ is_some(piece_at(applied.board, Move_to(mv)))
  THEN 0
  ELSE applied.halfmove_clock + 1

\* a turn that counts a full move after White's move
turn_after_white_counts(applied) ==
  [side_to_move |-> opposite(applied.side_to_move),
   fullmove_number |-> IF applied.side_to_move = White
                       THEN applied.fullmove_number + 1
                       ELSE applied.fullmove_number]

\* the side to move and fullmove number make_move leaves
turn_after(applied) ==
  [side_to_move |-> opposite(applied.side_to_move),
   fullmove_number |-> IF applied.side_to_move = Black
                       THEN applied.fullmove_number + 1
                       ELSE applied.fullmove_number]

\* Position::make_move: the Position the call leaves and the Result it
\* returns.  An Err of make_castling_move returns early (`?`), after the
\* snapshot was pushed, the rights updated, the en-passant target cleared
\* and the king moved.
make_move(pos, mv) ==
  the({ the({ IF step.result # "Ok" THEN step
              ELSE [self |-> [step.self EXCEPT
                               !.halfmove_clock = halfmove_after(step.self, mv),
                               !.fullmove_number = turn_after(step.self).fullmove_number,
                               !.side_to_move = turn_after(step.self).side_to_move],
                    result |-> "Ok"]
              : step \in {IF is_en_passant(mv)
                          THEN [self |-> make_en_passant_move(pushed, mv), result |-> "Ok"]
                          ELSE IF is_castling(mv) THEN make_castling_move(pushed, mv)
                          ELSE IF is_promotion(mv)
                          THEN [self |-> make_promotion_move(pushed, mv), result |-> "Ok"]
                          ELSE [self |-> make_normal_move(pushed, mv), result |-> "Ok"]} })
        : pushed \in {[pos EXCEPT
                         !.history = Append(pos.history, PositionState(pos)),
                         !.castling_rights =
                           CastlingRights_update(pos.castling_rights, mv, pos.board),
                         !.en_passant = None]} })

\* undo that forgets to restore the en-passant target
undo_restore_no_ep(pos, state) ==
  [pos EXCEPT !.board = state.board, !.castling_rights = state.castling_rights,
              !.halfmove_clock = state.halfmove_clock]

\* the fields undo_move restores from the popped PositionState
undo_restore(pos, state) ==
  [pos EXCEPT !.board = state.board, !.castling_rights = state.castling_rights,
              !.en_passant = state.en_passant,
              !.halfmove_clock = state.halfmove_clock]

\* undo that restores the snapshot and leaves it on the history
undo_move_no_pop(pos) ==
  IF pos.history # <<>>
  THEN LET state == pos.history[Len(pos.history)]
           restored == undo_restore(pos, state)
           side == opposite(restored.side_to_move)
       IN  [self |-> [restored EXCEPT
                       !.side_to_move = side,
                       !.fullmove_number = IF side = Black
                                           THEN restored.fullmove_number - 1
                                           ELSE restored.fullmove_number],
            result |-> "Ok"]
  ELSE [self |-> pos, result |-> "InvalidMove"]

\* Position::undo_move: the Position the call leaves and its Result
undo_move(pos) ==
  IF pos.history # <<>>
  THEN LET state == pos.history[Len(pos.history)]
           popped == [pos EXCEPT !.history = SubSeq(pos.history, 1, Len(pos.history) - 1)]
           restored == undo_restore(popped, state)
           side == opposite(restored.side_to_move)
       IN  [self |-> [restored EXCEPT
                       !.side_to_move = side,
                       !.fullmove_number = IF side = Black
                                           THEN restored.fullmove_number - 1
                                           ELSE restored.fullmove_number],
            result |-> "Ok"]
  ELSE [self |-> pos, result |-> "InvalidMove"]

\* Position::generate_moves
Position_generate_moves(pos) == generate_moves(pos.board, pos.side_to_move)

\* Position::find_king: None is the `expect("King not found")` panic
find_king(pos, color) == lsb(piece_bitboard(pos.board, color, King))

\* Position::is_square_attacked
is_square_attacked(pos, square, by_color) ==
  LET sq_bb == {square}
      b == pos.board
      pawn_attacks == IF by_color = White
                      THEN southwest(sq_bb) \cup southeast(sq_bb)
                      ELSE northwest(sq_bb) \cup northeast(sq_bb)
      knight_attacks == generate_knight_moves(b, by_color, square)
      king_attacks == generate_king_moves(b, by_color, square)
      bishop_attacks == generate_bishop_attacks(b, square)
      rook_attacks == generate_rook_attacks(b, square)
  IN  \/ pawn_attacks \cap piece_bitboard(b, by_color, Pawn) # {}
      \/ knight_attacks \cap piece_bitboard(b, by_color, Knight) # {}
      \/ king_attacks \cap piece_bitboard(b, by_color, King) # {}
      \/ bishop_attacks \cap (piece_bitboard(b, by_color, Bishop)
                                \cup piece_bitboard(b, by_color, Queen)) # {}
      \/ rook_attacks \cap (piece_bitboard(b, by_color, Rook)
                              \cup piece_bitboard(b, by_color, Queen)) # {}

\* Position::in_check, for a position whose side to move has a king
in_check(pos) ==
  is_square_attacked(pos, unwrap(find_king(pos, pos.side_to_move)),
                     opposite(pos.side_to_move))

\* Position::is_game_over
is_game_over(pos) == Position_generate_moves(pos) = <<>>

(***************************************************************************)
(* position.rs: FEN.  A &str is a sequence of characters.                  *)
(***************************************************************************)
\* u32::to_string
RECURSIVE to_string(_)
to_string(n) ==
  IF n < 10 THEN <<DigitChars[n + 1]>>
  ELSE to_string(n \div 10) \o <<DigitChars[(n % 10) + 1]>>

is_digit(ch) == Ord(ch) >= 48 /\ Ord(ch) <= 57

\* the value of a string of decimal digits
RECURSIVE digits_value(_)
digits_value(s) ==
  IF s = <<>> THEN 0
  ELSE digits_value(SubSeq(s, 1, Len(s) - 1)) * 10 + (Ord(s[Len(s)]) - 48)

\* the decimal digits of u32::MAX, 4294967295
U32MaxDigits == <<"4", "2", "9", "4", "9", "6", "7", "2", "9", "5">>

\* a string of digits without its leading zeros
RECURSIVE strip_zeros(_)
strip_zeros(s) == IF s # <<>> /\ s[1] = "0" THEN strip_zeros(Tail(s)) ELSE s

\* whether the digit string s, as long as t, is a greater number than t
RECURSIVE digits_greater(_, _)
digits_greater(s, t) ==
  /\ s # <<>>
  /\ \/ Ord(s[1]) > Ord(t[1])
     \/ Ord(s[1]) = Ord(t[1]) /\ digits_greater(Tail(s), Tail(t))

\* whether a string of digits is a number above u32::MAX
overflows_u32(digits) ==
  LET d == strip_zeros(digits)
  IN  \/ Len(d) > Len(U32MaxDigits)
      \/ Len(d) = Len(U32MaxDigits) /\ digits_greater(d, U32MaxDigits)

\* str::parse::<u32>().ok(): an optional '+', then digits, no overflow
parse_u32(s) ==
  LET digits == IF s # <<>> /\ s[1] = "+" THEN Tail(s) ELSE s
  IN  IF digits = <<>> \/ \E i \in 1..Len(digits) : ~is_digit(digits[i]) THEN None
      ELSE IF overflows_u32(digits) THEN None
      ELSE Some(digits_value(digits))

\* str::split(sep): the pieces between the separators, empty ones kept
RECURSIVE split(_, _)
split(s, sep) ==
  IF \A i \in 1..Len(s) : s[i] # sep THEN <<s>>
  ELSE LET i == CHOOSE k \in 1..Len(s) : s[k] = sep /\ \A j \in 1..(k - 1) : s[j] # sep
       IN  <<SubSeq(s, 1, i - 1)>> \o split(SubSeq(s, i + 1, Len(s)), sep)

\* str::split_whitespace: the non-empty pieces between the spaces
split_whitespace(s) == SelectSeq(split(s, " "), LAMBDA part : part # <<>>)

\* fen_rank that keeps counting the empty squares across a piece
RECURSIVE fen_rank_no_reset(_, _, _, _)
fen_rank_no_reset(b, rank, file, empty_count) ==
  IF file = 8 THEN (IF empty_count > 0 THEN to_string(empty_count) ELSE <<>>)
  ELSE LET piece == piece_at(b, Square_new(file, rank))
       IN  IF is_some(piece)
           THEN (IF empty_count > 0 THEN to_string(empty_count) ELSE <<>>)
                  \o <<Piece_to_char(unwrap(piece))>>
                  \o fen_rank_no_reset(b, rank, file + 1, empty_count)
           ELSE fen_rank_no_reset(b, rank, file + 1, empty_count + 1)

\* to_fen's inner loop over the files of one rank, from `file` on
RECURSIVE fen_rank(_, _, _, _)
fen_rank(b, rank, file, empty_count) ==
  IF file = 8 THEN (IF empty_count > 0 THEN to_string(empty_count) ELSE <<>>)
  ELSE LET piece == piece_at(b, Square_new(file, rank))
       IN  IF is_some(piece)
           THEN (IF empty_count > 0 THEN to_string(empty_count) ELSE <<>>)
                  \o <<Piece_to_char(unwrap(piece))>> \o fen_rank(b, rank, file + 1, 0)
           ELSE fen_rank(b, rank, file + 1, empty_count + 1)

\* to_fen's outer loop, from `rank` down to rank 0
RECURSIVE fen_board(_, _)
fen_board(b, rank) ==
  fen_rank(b, rank, 0, 0) \o (IF rank > 0 THEN <<"/">> \o fen_board(b, rank - 1) ELSE <<>>)

\* to_fen's castling field
fen_castling(cr) ==
  LET castling == (IF cr.white_kingside THEN <<"K">> ELSE <<>>)
                    \o (IF cr.white_queenside THEN <<"Q">> ELSE <<>>)
                    \o (IF cr.black_kingside THEN <<"k">> ELSE <<>>)
                    \o (IF cr.black_queenside THEN <<"q">> ELSE <<>>)
  IN  IF castling = <<>> THEN <<"-">> ELSE castling

\* Position::to_fen
to_fen(pos) ==
  fen_board(pos.board, 7)
    \o <<" ">> \o (IF pos.side_to_move = White THEN <<"w">> ELSE <<"b">>)
    \o <<" ">> \o fen_castling(pos.castling_rights)
    \o <<" ">> \o (IF is_some(pos.en_passant) THEN to_algebraic(unwrap(pos.en_passant))
                   ELSE <<"-">>)
    \o <<" ">> \o to_string(pos.halfmove_clock)
    \o <<" ">> \o to_string(pos.fullmove_number)

\* parse_fen_board's loop over the characters of one rank: the board and
\* the file reached, or an error
RECURSIVE parse_fen_rank(_, _, _, _)
parse_fen_rank(b, rank, chars, file) ==
  IF chars = <<>>
  THEN (IF file # 8 THEN Err("InvalidFen") ELSE Ok(b))
  ELSE IF file >= 8 THEN Err("InvalidFen")
  ELSE LET ch == Head(chars)
       IN  IF is_digit(ch)
           THEN parse_fen_rank(b, rank, Tail(chars), file + (Ord(ch) - 48))
           ELSE IF is_some(Piece_from_char(ch))
           THEN parse_fen_rank(set_piece(b, Square_new(file, rank), Piece_from_char(ch)),
                               rank, Tail(chars), file + 1)
           ELSE Err("InvalidFen")

\* parse_fen_board's loop over the ranks, from index rank_idx on
RECURSIVE parse_fen_ranks(_, _, _)
parse_fen_ranks(b, ranks, rank_idx) ==
  IF rank_idx > Len(ranks) THEN Ok(b)
  ELSE LET r == parse_fen_rank(b, 7 - (rank_idx - 1), ranks[rank_idx], 0)
       IN  IF ~r.ok THEN r ELSE parse_fen_ranks(r.val, ranks, rank_idx + 1)

parse_fen_board(fen) ==
  LET ranks == split(fen, "/")
  IN  IF Len(ranks) # 8 THEN Err("InvalidFen")
      ELSE LET r == parse_fen_ranks(Board_new, ranks, 1)
           IN  IF ~r.ok THEN r ELSE Ok(update_derived(r.val))

\* parse_fen_castling's loop
RECURSIVE parse_fen_castling_chars(_, _)
parse_fen_castling_chars(rights, chars) ==
  IF chars = <<>> THEN Ok(rights)
  ELSE LET ch == Head(chars) IN
    CASE ch = "K" -> parse_fen_castling_chars([rights EXCEPT !.white_kingside = TRUE], Tail(chars))
      [] ch = "Q" -> parse_fen_castling_chars([rights EXCEPT !.white_queenside = TRUE], Tail(chars))
      [] ch = "k" -> parse_fen_castling_chars([rights EXCEPT !.black_kingside = TRUE], Tail(chars))
      [] ch = "q" -> parse_fen_castling_chars([rights EXCEPT !.black_queenside = TRUE], Tail(chars))
      [] OTHER -> Err("InvalidFen")

parse_fen_castling(fen) ==
  IF fen = <<"-">> THEN Ok(CastlingRights_none)
  ELSE parse_fen_castling_chars(CastlingRights_none, fen)

\* Position::from_fen
from_fen(fen) ==
  LET parts == split_whitespace(fen)
  IN  IF Len(parts) < 4 THEN Err("InvalidFen")
      ELSE LET b == parse_fen_board(parts[1])
               castling == parse_fen_castling(parts[3])
               en_passant == IF parts[4] = <<"-">> THEN None ELSE from_algebraic(parts[4])
               halfmove == IF Len(parts) >= 5 THEN parse_u32(parts[5]) ELSE None
               fullmove == IF Len(parts) >= 6 THEN parse_u32(parts[6]) ELSE None
           IN  IF ~b.ok THEN b
               ELSE IF parts[2] \notin {<<"w">>, <<"b">>} THEN Err("InvalidFen")
               ELSE IF ~castling.ok THEN castling
               ELSE IF parts[4] # <<"-">> /\ en_passant = None THEN Err("InvalidFen")
               ELSE Ok([board |-> b.val,
                        side_to_move |-> IF parts[2] = <<"w">> THEN White ELSE Black,
                        castling_rights |-> castling.val,
                        en_passant |-> en_passant,
                        halfmove_clock |-> IF is_some(halfmove) THEN unwrap(halfmove) ELSE 0,
                        fullmove_number |-> IF is_some(fullmove) THEN unwrap(fullmove) ELSE 1,
                        history |-> <<>>])

(***************************************************************************)
(* The positions a behaviour starts from: Position::new(), and             *)
(* Position::from_fen of these strings.                                    *)
(***************************************************************************)
\* the FEN of the initial position
\* rnbqkbnr/pppppppp/8/8/8/8/PPPPPPPP/RNBQKBNR w KQkq - 0 1
StartFen ==
  <<"r", "n", "b", "q", "k", "b", "n", "r", "/", "p", "p", "p", "p", "p",
    "p", "p", "p", "/", "8", "/", "8", "/", "8", "/", "8", "/", "P", "P",
    "P", "P", "P", "P", "P", "P", "/", "R", "N", "B", "Q", "K", "B", "N",
    "R", " ", "w", " ", "K", "Q", "k", "q", " ", "-", " ", "0", " ", "1">>

\* the FEN test_make_move's position has after e2e4
\* rnbqkbnr/pppppppp/8/8/4P3/8/PPPP1PPP/RNBQKBNR b KQkq e3 0 1
AfterE2E4Fen ==
  <<"r", "n", "b", "q", "k", "b", "n", "r", "/", "p", "p", "p", "p", "p",
    "p", "p", "p", "/", "8", "/", "8", "/", "4", "P", "3", "/", "8", "/",
    "P", "P", "P", "P", "1", "P", "P", "P", "/", "R", "N", "B", "Q", "K",
    "B", "N", "R", " ", "b", " ", "K", "Q", "k", "q", " ", "e", "3", " ",
    "0", " ", "1">>

\* kings and rooks on their home squares
\* r3k2r/8/8/8/8/8/8/R3K2R w KQkq - 0 1
CastlingFen ==
  <<"r", "3", "k", "2", "r", "/", "8", "/", "8", "/", "8", "/", "8", "/",
    "8", "/", "8", "/", "R", "3", "K", "2", "R", " ", "w", " ", "K", "Q",
    "k", "q", " ", "-", " ", "0", " ", "1">>

\* a pawn that may capture en passant and a pawn about to promote
\* 4k3/P7/8/3pP3/8/8/8/4K3 w - d6 0 3
EnPassantFen ==
  <<"4", "k", "3", "/", "P", "7", "/", "8", "/", "3", "p", "P", "3", "/",
    "8", "/", "8", "/", "8", "/", "4", "K", "3", " ", "w", " ", "-", " ",
    "d", "6", " ", "0", " ", "3">>

\* a knight that gives check, and a running halfmove clock
\* 4k3/8/8/8/8/5n2/8/4K2R w K - 7 12
KnightFen ==
  <<"4", "k", "3", "/", "8", "/", "8", "/", "8", "/", "8", "/",
    "5", "n", "2", "/", "8", "/", "4", "K", "2", "R", " ", "w", " ", "K", " ", "-",
    " ", "7", " ", "1", "2">>

\* the initial position after g1f3 a7a6 f3e5 a6a5 e5g6 a5a4
\* rnbqkbnr/1ppppppp/6N1/8/p7/8/PPPPPPPP/RNBQKB1R w KQkq - 0 4
RookHuntFen ==
  <<"r", "n", "b", "q", "k", "b", "n", "r", "/",
    "1", "p", "p", "p", "p", "p", "p", "p", "/",
    "6", "N", "1", "/", "8", "/", "p", "7", "/", "8", "/",
    "P", "P", "P", "P", "P", "P", "P", "P", "/",
    "R", "N", "B", "Q", "K", "B", "1", "R", " ", "w", " ", "K", "Q", "k", "q",
    " ", "-", " ", "0", " ", "4">>

InitFens == {CastlingFen, EnPassantFen, KnightFen, RookHuntFen}

\* the position of test_search_checkmate: White is checkmated
\* rnb1kbnr/pppp1ppp/8/4p3/6Pq/5P2/PPPPP2P/RNBQKBNR w KQkq - 0 1
FoolsMateFen ==
  <<"r", "n", "b", "1", "k", "b", "n", "r", "/", "p", "p", "p", "p", "1",
    "p", "p", "p", "/", "8", "/", "4", "p", "3", "/", "6", "P", "q", "/",
    "5", "P", "2", "/", "P", "P", "P", "P", "P", "2", "P", "/", "R", "N",
    "B", "Q", "K", "B", "N", "R", " ", "w", " ", "K", "Q", "k", "q", " ",
    "-", " ", "0", " ", "1">>

\* White is checkmated on its back rank, and its rook can check on a8
\* 7k/R7/8/8/8/8/5PPP/4r1K1 w - - 0 1
BackRankFen ==
  <<"7", "k", "/", "R", "7", "/", "8", "/", "8", "/", "8", "/", "8", "/",
    "5", "P", "P", "P", "/", "4", "r", "1", "K", "1", " ", "w", " ", "-",
    " ", "-", " ", "0", " ", "1">>

\* two kings, two ranks apart
\* 8/8/8/8/8/4k3/8/4K3 b - - 0 1
KingsFen ==
  <<"8", "/", "8", "/", "8", "/", "8", "/", "8", "/", "4", "k", "3", "/",
    "8", "/", "4", "K", "3", " ", "b", " ", "-", " ", "-", " ", "0", " ",
    "1">>

\* kings and knights in the corners
\* k6n/8/8/8/8/8/8/N6K w - - 0 1
KnightsFen ==
  <<"k", "6", "n", "/", "8", "/", "8", "/", "8", "/", "8", "/", "8", "/",
    "8", "/", "N", "6", "K", " ", "w", " ", "-", " ", "-", " ", "0", " ",
    "1">>

\* White has no move to generate and is not attacked
\* 6PK/6PP/8/8/8/8/8/k7 w - - 0 1
NoMovesFen ==
  <<"6", "P", "K", "/", "6", "P", "P", "/", "8", "/", "8", "/", "8", "/",
    "8", "/", "8", "/", "k", "7", " ", "w", " ", "-", " ", "-", " ", "0",
    " ", "1">>

\* a pawn capture that can be answered by a pawn capture
\* 4k3/8/4p3/3p4/4P3/8/8/4K3 w - - 0 1
CaptureFen ==
  <<"4", "k", "3", "/", "8", "/", "4", "p", "3", "/", "3", "p", "4",
    "/", "4", "P", "3", "/", "8", "/", "8", "/", "4", "K", "3", " ",
    "w", " ", "-", " ", "-", " ", "0", " ", "1">>

\* the FEN strings a search starts from
SearchFens == {FoolsMateFen, BackRankFen, KingsFen, KnightsFen, NoMovesFen}

(***************************************************************************)
(* evaluate.rs                                                             *)
(***************************************************************************)
PIECE_VALUES == <<100, 300, 300, 500, 900, 20000>>

PAWN_TABLE ==
  <<0, 0, 0, 0, 0, 0, 0, 0,
     50, 50, 50, 50, 50, 50, 50, 50,
     10, 10, 20, 30, 30, 20, 10, 10,
     5, 5, 10, 25, 25, 10, 5, 5,
     0, 0, 0, 20, 20, 0, 0, 0,
     5, -5, -10, 0, 0, -10, -5, 5,
     5, 10, 10, -20, -20, 10, 10, 5,
     0, 0, 0, 0, 0, 0, 0, 0>>

KNIGHT_TABLE ==
  <<-50, -40, -30, -30, -30, -30, -40, -50,
     -40, -20, 0, 0, 0, 0, -20, -40,
     -30, 0, 10, 15, 15, 10, 0, -30,
     -30, 5, 15, 20, 20, 15, 5, -30,
     -30, 0, 15, 20, 20, 15, 0, -30,
     -30, 5, 10, 15, 15, 10, 5, -30,
     -40, -20, 0, 5, 5, 0, -20, -40,
     -50, -40, -30, -30, -30, -30, -40, -50>>

BISHOP_TABLE ==
  <<-20, -10, -10, -10, -10, -10, -10, -20,
     -10, 0, 0, 0, 0, 0, 0, -10,
     -10, 0, 5, 10, 10, 5, 0, -10,
     -10, 5, 5, 10, 10, 5, 5, -10,
     -10, 0, 10, 10, 10, 10, 0, -10,
     -10, 10, 10, 10, 10, 10, 10, -10,
     -10, 5, 0, 0, 0, 0, 5, -10,
     -20, -10, -10, -10, -10, -10, -10, -20>>

ROOK_TABLE ==
  <<0, 0, 0, 0, 0, 0, 0, 0,
     5, 10, 10, 10, 10, 10, 10, 5,
     -5, 0, 0, 0, 0, 0, 0, -5,
     -5, 0, 0, 0, 0, 0, 0, -5,
     -5, 0, 0, 0, 0, 0, 0, -5,
     -5, 0, 0, 0, 0, 0, 0, -5,
     -5, 0, 0, 0, 0, 0, 0, -5,
     0, 0, 0, 5, 5, 0, 0, 0>>

QUEEN_TABLE ==
  <<-20, -10, -10, -5, -5, -10, -10, -20,
     -10, 0, 0, 0, 0, 0, 0, -10,
     -10, 0, 5, 5, 5, 5, 0, -10,
     -5, 0, 5, 5, 5, 5, 0, -5,
     0, 0, 5, 5, 5, 5, 0, -5,
     -10, 5, 5, 5, 5, 5, 0, -10,
     -10, 0, 5, 0, 0, 0, 0, -10,
     -20, -10, -10, -5, -5, -10, -10, -20>>

KING_TABLE ==
  <<-30, -40, -40, -50, -50, -40, -40, -30,
     -30, -40, -40, -50, -50, -40, -40, -30,
     -30, -40, -40, -50, -50, -40, -40, -30,
     -30, -40, -40, -50, -50, -40, -40, -30,
     -20, -30, -30, -40, -40, -30, -30, -20,
     -10, -20, -20, -20, -20, -20, -20, -10,
     20, 20, 0, 0, 0, 0, 20, 20,
     20, 30, 10, 0, 0, 10, 30, 20>>

material_score(b) ==
  LET term(piece_type) ==
        (Cardinality(piece_bitboard(b, White, piece_type))
           - Cardinality(piece_bitboard(b, Black, piece_type)))
          * PIECE_VALUES[piece_type + 1]
  IN  term(Pawn) + term(Knight) + term(Bishop) + term(Rook) + term(Queen) + term(King)

get_piece_square_value(piece_type, square, color) ==
  LET table_index == IF color = White THEN square ELSE 63 - square
  IN  CASE piece_type = Pawn -> PAWN_TABLE[table_index + 1]
        [] piece_type = Knight -> KNIGHT_TABLE[table_index + 1]
        [] piece_type = Bishop -> BISHOP_TABLE[table_index + 1]
        [] piece_type = Rook -> ROOK_TABLE[table_index + 1]
        [] piece_type = Queen -> QUEEN_TABLE[table_index + 1]
        [] piece_type = King -> KING_TABLE[table_index + 1]

\* the sum of get_piece_square_value over the squares of one bitboard
RECURSIVE piece_square_sum(_, _, _)
piece_square_sum(pieces, piece_type, color) ==
  IF pieces = <<>> THEN 0
  ELSE get_piece_square_value(piece_type, Head(pieces), color)
         + piece_square_sum(Tail(pieces), piece_type, color)

piece_square_score(b) ==
  LET side(color) ==
        LET term(piece_type) ==
              piece_square_sum(squares(piece_bitboard(b, color, piece_type)), piece_type, color)
        IN  term(Pawn) + term(Knight) + term(Bishop) + term(Rook) + term(Queen) + term(King)
  IN  side(White) - side(Black)

\* evaluate that does not negate the score for Black
evaluate_white_view(pos) == material_score(pos.board) + piece_square_score(pos.board)

evaluate(pos) ==
  LET score == material_score(pos.board) + piece_square_score(pos.board)
  IN  IF pos.side_to_move = Black THEN -score ELSE score

\* evaluate::is_insufficient_material
is_insufficient_material(b) ==
  IF Cardinality(b.occupied) = 2 THEN TRUE
  ELSE IF Cardinality(b.occupied) = 3
  THEN IF Cardinality(b.white) = 2 /\ Cardinality(b.black) = 1
       THEN Cardinality(piece_bitboard(b, White, Bishop)) = 1
              \/ Cardinality(piece_bitboard(b, White, Knight)) = 1
       ELSE IF Cardinality(b.black) = 2 /\ Cardinality(b.white) = 1
       THEN Cardinality(piece_bitboard(b, Black, Bishop)) = 1
              \/ Cardinality(piece_bitboard(b, Black, Knight)) = 1
       ELSE FALSE
  ELSE FALSE

(***************************************************************************)
(* search.rs.  A call returns a record with the field `panic`, TRUE when    *)
(* the call ended in a panic (find_king on a side without a king).         *)
(***************************************************************************)
\* i32::MIN + 1
MinScore == -2147483647

\* i32::MAX - 1
MaxScore == 2147483646

\* SearchStats::default()
SearchStats_default == [nodes_searched |-> 0, qnodes_searched |-> 0, cutoffs |-> 0, depth |-> 0]

\* Position::is_checkmate, for a position whose side to move has a king
is_checkmate(pos) == in_check(pos) /\ Position_generate_moves(pos) = <<>>

\* Position::is_stalemate, for a position whose side to move has a king
is_stalemate(pos) == ~in_check(pos) /\ Position_generate_moves(pos) = <<>>

\* evaluate_game_over calls is_checkmate, whose in_check panics in find_king
\* when the side to move has no king
evaluate_game_over_panics(pos) == find_king(pos, pos.side_to_move) = None

evaluate_game_over(pos) ==
  IF is_checkmate(pos) THEN -20000 + pos.fullmove_number
  ELSE IF is_stalemate(pos) THEN 0
  ELSE 0

piece_value(piece_type) ==
  CASE piece_type = Pawn -> 100
    [] piece_type = Knight -> 300
    [] piece_type = Bishop -> 300
    [] piece_type = Rook -> 500
    [] piece_type = Queen -> 900
    [] piece_type = King -> 20000

capture_score(pos, mv) ==
  LET from_piece == piece_at(pos.board, Move_from(mv))
      to_piece == piece_at(pos.board, Move_to(mv))
  IN  IF is_some(from_piece) /\ is_some(to_piece)
      THEN piece_value(unwrap(to_piece).piece_type) * 10
             - piece_value(unwrap(from_piece).piece_type)
      ELSE IF is_en_passant(mv) THEN 100
      ELSE 0

move_score(pos, mv) ==
  LET capture == IF is_capture(mv, pos.board) THEN capture_score(pos, mv) ELSE 0
      promotion == IF is_promotion(mv) /\ is_some(promotion_piece(mv))
                   THEN CASE unwrap(promotion_piece(mv)) = Queen -> 900
                          [] unwrap(promotion_piece(mv)) = Rook -> 500
                          [] unwrap(promotion_piece(mv)) = Bishop -> 300
                          [] unwrap(promotion_piece(mv)) = Knight -> 300
                          [] OTHER -> 0
                   ELSE 0
  IN  capture + promotion

\* sort_by(|a, b| b.1.cmp(&a.1)) on pairs <<move, score>>: a stable sort,
\* the highest score first
RECURSIVE sort_by_score(_)
sort_by_score(scored) ==
  IF scored = <<>> THEN <<>>
  ELSE LET top == CHOOSE s \in {scored[i][2] : i \in 1..Len(scored)} :
                    \A i \in 1..Len(scored) : scored[i][2] <= s
       IN  SelectSeq(scored, LAMBDA p : p[2] = top)
             \o sort_by_score(SelectSeq(scored, LAMBDA p : p[2] # top))

RECURSIVE quiescence_search(_, _, _, _)
RECURSIVE quiescence_loop(_, _, _, _)
\* the `for (mv, _) in scored_captures` loop of quiescence_search, run on
\* the first half of the captures and then on the second.  acc is the state
\* between two iterations: alpha in score, the stats, and done after the
\* `return beta`
quiescence_loop(pos, scored_captures, acc, beta) ==
  IF acc.done \/ scored_captures = <<>> THEN acc
  ELSE IF Len(scored_captures) > 1
  THEN the({quiescence_loop(pos, SubSeq(scored_captures, Len(scored_captures) \div 2 + 1,
                                       Len(scored_captures)), half, beta) :
            half \in {quiescence_loop(pos, SubSeq(scored_captures, 1,
                                                  Len(scored_captures) \div 2),
                                      acc, beta)}})
  ELSE the({IF made.result # "Ok" THEN acc
            ELSE the({IF -child.score >= beta
                      THEN [score |-> beta, stats |-> child.stats, panic |-> FALSE,
                            done |-> TRUE]
                      ELSE [score |-> IF -child.score > acc.score THEN -child.score
                                      ELSE acc.score,
                            stats |-> child.stats, panic |-> FALSE, done |-> FALSE] :
                      child \in {quiescence_search(made.self, -beta, -acc.score,
                                                   acc.stats)}}) :
            made \in {make_move(pos, scored_captures[1][1])}})

\* the captures among the generated moves, each with its capture_score,
\* the highest score first
scored_captures_of(pos) ==
  LET moves == Position_generate_moves(pos)
      capture_moves == SelectSeq(moves, LAMBDA mv : is_capture(mv, pos.board))
  IN  sort_by_score([i \in 1..Len(capture_moves) |->
                       <<capture_moves[i], capture_score(pos, capture_moves[i])>>])

quiescence_search(pos, alpha, beta, stats) ==
  the({IF stand_pat >= beta
       THEN [score |-> beta, stats |-> [stats EXCEPT !.qnodes_searched = @ + 1],
             panic |-> FALSE]
       ELSE the({[score |-> ran.score, stats |-> ran.stats, panic |-> ran.panic] :
                 ran \in {quiescence_loop(pos, scored_captures_of(pos),
                                          [score |-> IF stand_pat > alpha THEN stand_pat
                                                     ELSE alpha,
                                           stats |-> [stats EXCEPT !.qnodes_searched = @ + 1],
                                           panic |-> FALSE, done |-> FALSE],
                                          beta)}}) :
       stand_pat \in {evaluate(pos)}})

RECURSIVE alpha_beta(_, _, _, _, _)
RECURSIVE alpha_beta_loop(_, _, _, _, _)
\* the `for (mv, _) in scored_moves` loop of alpha_beta, run on the first
\* half of the moves and then on the second.  acc is the state between two
\* iterations: alpha in score, the stats, and done after the `return beta`
\* or a panic below
alpha_beta_loop(pos, depth, scored_moves, acc, beta) ==
  IF acc.done \/ scored_moves = <<>> THEN acc
  ELSE IF Len(scored_moves) > 1
  THEN the({alpha_beta_loop(pos, depth, SubSeq(scored_moves, Len(scored_moves) \div 2 + 1,
                                              Len(scored_moves)), half, beta) :
            half \in {alpha_beta_loop(pos, depth, SubSeq(scored_moves, 1,
                                                         Len(scored_moves) \div 2),
                                      acc, beta)}})
  ELSE the({IF made.result # "Ok" THEN acc
            ELSE the({IF child.panic
                      THEN [score |-> 0, stats |-> child.stats, panic |-> TRUE,
                            done |-> TRUE]
                      ELSE IF -child.score >= beta
                      THEN [score |-> beta,
                            stats |-> [child.stats EXCEPT !.cutoffs = @ + 1],
                            panic |-> FALSE, done |-> TRUE]
                      ELSE [score |-> IF -child.score > acc.score THEN -child.score
                                      ELSE acc.score,
                            stats |-> child.stats, panic |-> FALSE, done |-> FALSE] :
                      child \in {alpha_beta(made.self, depth - 1, -beta, -acc.score,
                                            acc.stats)}}) :
            made \in {make_move(pos, scored_moves[1][1])}})

\* the generated moves, each with its move_score, the highest score first
scored_moves_of(pos) ==
  LET moves == Position_generate_moves(pos)
  IN  sort_by_score([i \in 1..Len(moves) |-> <<moves[i], move_score(pos, moves[i])>>])

alpha_beta(pos, depth, alpha, beta, stats) ==
  the({IF depth = 0 THEN quiescence_search(pos, alpha, beta, counted)
       ELSE IF is_game_over(pos)
       THEN IF evaluate_game_over_panics(pos)
            THEN [score |-> 0, stats |-> counted, panic |-> TRUE]
            ELSE [score |-> evaluate_game_over(pos), stats |-> counted, panic |-> FALSE]
       ELSE the({[score |-> ran.score, stats |-> ran.stats, panic |-> ran.panic] :
                 ran \in {alpha_beta_loop(pos, depth, scored_moves_of(pos),
                                          [score |-> alpha, stats |-> counted,
                                           panic |-> FALSE, done |-> FALSE],
                                          beta)}}) :
       counted \in {[stats EXCEPT !.nodes_searched = @ + 1]}})

\* the result of a search that ended in a panic
SearchPanic == [panic |-> TRUE, best_move |-> None, score |-> 0, depth |-> 0,
                stats |-> SearchStats_default]

\* the result of a search whose `params.depth - 1` was computed for
\* params.depth = 0, in the first turn of the `for mv in moves` loop: a
\* build with overflow checks panics there, a build without them calls
\* alpha_beta with the depth 2^32 - 1, written -1 here
SearchUnderflow == [panic |-> TRUE, best_move |-> None, score |-> 0, depth |-> -1,
                    stats |-> SearchStats_default]

\* the `for mv in moves` loop of search, run on the first half of the moves
\* and then on the second.  acc is the result so far: best_move, best_score
\* in score, the stats, and panic after a panic below
RECURSIVE search_loop(_, _, _, _)
search_loop(pos, depth, moves, acc) ==
  IF acc.panic \/ moves = <<>> THEN acc
  ELSE IF Len(moves) > 1
  THEN the({search_loop(pos, depth, SubSeq(moves, Len(moves) \div 2 + 1, Len(moves)), half) :
            half \in {search_loop(pos, depth, SubSeq(moves, 1, Len(moves) \div 2), acc)}})
  ELSE the({IF child.panic THEN SearchPanic
            ELSE IF -child.score > acc.score
            THEN [acc EXCEPT !.best_move = Some(moves[1]), !.score = -child.score,
                             !.stats = child.stats]
            ELSE [acc EXCEPT !.stats = child.stats] :
            child \in {alpha_beta(make_move(pos, moves[1]).self, depth - 1,
                                  MinScore, MaxScore, acc.stats)}})

\* search::search; every generated move is applied by make_move with Ok
search(pos, depth) ==
  IF is_game_over(pos)
  THEN IF evaluate_game_over_panics(pos) THEN SearchPanic
       ELSE [panic |-> FALSE, best_move |-> None, score |-> evaluate_game_over(pos),
             depth |-> 0, stats |-> [SearchStats_default EXCEPT !.depth = depth]]
  ELSE IF depth = 0 THEN SearchUnderflow
  ELSE search_loop(pos, depth, Position_generate_moves(pos),
                   [panic |-> FALSE, best_move |-> None, score |-> MinScore,
                    depth |-> depth,
                    stats |-> [SearchStats_default EXCEPT !.depth = depth]])

\* the `for depth in 1..=max_depth` loop of iterative_deepening: the
\* searches it ran, in order
RECURSIVE deepening_loop(_, _, _)
deepening_loop(pos, depth, max_depth) ==
  IF depth > max_depth THEN <<>>
  ELSE the({IF result.panic \/ abs(result.score) > 10000 THEN <<result>>
            ELSE <<result>> \o deepening_loop(pos, depth + 1, max_depth) :
            result \in {search(pos, depth)}})

\* search::iterative_deepening: Ok(best_result), Err for max_depth = 0, or
\* the panic of a search
iterative_deepening(pos, max_depth) ==
  the({IF ran = <<>> THEN Err("InvalidMove") ELSE Ok(ran[Len(ran)]) :
       ran \in {deepening_loop(pos, 1, max_depth)}})

(***************************************************************************)
(* magic.rs: magic-bitboard lookups.  A u64 that is multiplied is the      *)
(* tuple of its eight bytes, the least significant first.                  *)
(***************************************************************************)
\* ROOK_MAGICS, each magic as its bytes
ROOK_MAGICS ==
  <<<<128, 0, 64, 32, 16, 0, 128, 0>>, <<64, 0, 32, 0, 16, 0, 64, 0>>,
    <<128, 0, 32, 0, 16, 8, 128, 0>>, <<128, 0, 16, 0, 8, 4, 128, 0>>,
    <<128, 0, 8, 0, 4, 2, 128, 0>>, <<128, 0, 4, 0, 2, 1, 128, 0>>,
    <<0, 2, 0, 1, 128, 0, 128, 0>>, <<0, 1, 128, 64, 32, 0, 128, 0>>,
    <<128, 0, 64, 32, 0, 128, 0, 0>>, <<0, 80, 0, 32, 0, 64, 0, 0>>,
    <<128, 0, 32, 0, 16, 128, 0, 0>>, <<128, 0, 16, 0, 8, 128, 0, 0>>,
    <<128, 0, 8, 0, 4, 128, 0, 0>>, <<128, 0, 4, 0, 2, 128, 0, 0>>,
    <<128, 0, 2, 0, 1, 128, 0, 0>>, <<0, 1, 128, 64, 0, 128, 0, 0>>,
    <<128, 0, 64, 0, 128, 32, 0, 0>>, <<0, 16, 32, 0, 64, 64, 0, 0>>,
    <<0, 32, 0, 16, 128, 128, 0, 0>>, <<0, 16, 0, 8, 128, 128, 0, 0>>,
    <<0, 8, 0, 4, 128, 128, 0, 0>>, <<0, 4, 0, 2, 128, 128, 0, 0>>,
    <<4, 0, 2, 0, 1, 1, 0, 0>>, <<4, 129, 64, 0, 0, 2, 0, 0>>,
    <<0, 64, 0, 128, 128, 32, 0, 0>>, <<0, 80, 0, 64, 0, 32, 0, 0>>,
    <<128, 0, 32, 128, 0, 16, 0, 0>>, <<128, 0, 16, 128, 0, 8, 0, 0>>,
    <<128, 0, 8, 128, 0, 4, 0, 0>>, <<128, 0, 4, 128, 0, 2, 0, 0>>,
    <<0, 2, 128, 128, 0, 1, 0, 0>>, <<0, 65, 0, 128, 0, 128, 0, 0>>,
    <<128, 0, 128, 0, 64, 32, 0, 0>>, <<0, 16, 64, 64, 0, 32, 0, 0>>,
    <<0, 32, 128, 128, 0, 16, 0, 0>>, <<0, 16, 128, 128, 0, 8, 0, 0>>,
    <<0, 8, 128, 128, 0, 4, 0, 0>>, <<0, 4, 128, 128, 0, 2, 0, 0>>,
    <<4, 0, 1, 1, 0, 2, 0, 0>>, <<0, 1, 128, 64, 0, 128, 0, 0>>,
    <<0, 128, 128, 0, 64, 32, 0, 0>>, <<128, 128, 0, 64, 0, 32, 0, 0>>,
    <<128, 128, 0, 32, 0, 16, 0, 0>>, <<128, 128, 0, 16, 0, 8, 0, 0>>,
    <<128, 128, 0, 8, 0, 4, 0, 0>>, <<128, 128, 0, 4, 0, 2, 0, 0>>,
    <<128, 128, 0, 2, 0, 1, 0, 0>>, <<4, 0, 2, 129, 64, 0, 0, 0>>,
    <<128, 0, 128, 0, 64, 32, 0, 0>>, <<128, 128, 0, 64, 0, 32, 0, 0>>,
    <<128, 128, 0, 32, 0, 16, 0, 0>>, <<128, 128, 0, 16, 0, 8, 0, 0>>,
    <<128, 128, 0, 8, 0, 4, 0, 0>>, <<128, 128, 0, 4, 0, 2, 0, 0>>,
    <<128, 0, 2, 0, 1, 128, 0, 0>>, <<128, 0, 0, 65, 0, 128, 0, 0>>,
    <<74, 113, 237, 252, 221, 252, 255, 0>>, <<74, 113, 237, 252, 221, 252, 127, 0>>,
    <<150, 128, 216, 255, 205, 255, 63, 0>>, <<1, 33, 0, 16, 8, 4, 0, 0>>,
    <<17, 0, 8, 4, 2, 0, 1, 0>>, <<1, 8, 0, 4, 2, 0, 1, 0>>,
    <<1, 4, 0, 130, 0, 0, 1, 0>>, <<162, 209, 250, 171, 250, 255, 1, 0>>>>

\* BISHOP_MAGICS, each magic as its bytes
BISHOP_MAGICS ==
  <<<<0, 2, 2, 2, 2, 2, 2, 0>>, <<0, 0, 2, 2, 2, 2, 2, 0>>,
    <<0, 0, 0, 2, 2, 1, 4, 0>>, <<0, 0, 0, 128, 0, 4, 4, 0>>,
    <<0, 0, 0, 0, 64, 16, 1, 0>>, <<0, 0, 0, 64, 16, 130, 0, 0>>,
    <<0, 0, 64, 16, 4, 65, 0, 0>>, <<0, 64, 16, 4, 65, 16, 0, 0>>,
    <<0, 4, 4, 4, 4, 4, 0, 0>>, <<0, 2, 2, 2, 2, 2, 0, 0>>,
    <<0, 0, 2, 2, 1, 4, 0, 0>>, <<0, 0, 128, 0, 4, 4, 0, 0>>,
    <<0, 0, 0, 64, 16, 1, 0, 0>>, <<0, 0, 64, 16, 130, 0, 0, 0>>,
    <<0, 64, 16, 4, 65, 0, 0, 0>>, <<0, 32, 8, 130, 32, 0, 0, 0>>,
    <<0, 8, 8, 8, 8, 0, 4, 0>>, <<0, 4, 4, 4, 4, 0, 2, 0>>,
    <<0, 2, 2, 2, 2, 0, 1, 0>>, <<0, 64, 0, 2, 8, 128, 0, 0>>,
    <<0, 0, 160, 0, 4, 128, 0, 0>>, <<0, 64, 136, 0, 1, 32, 0, 0>>,
    <<0, 32, 8, 130, 0, 64, 0, 0>>, <<0, 16, 4, 65, 0, 32, 0, 0>>,
    <<0, 16, 16, 16, 0, 8, 2, 0>>, <<0, 8, 8, 8, 0, 4, 1, 0>>,
    <<0, 4, 1, 4, 128, 32, 0, 0>>, <<0, 2, 1, 4, 64, 64, 0, 0>>,
    <<0, 32, 128, 0, 0, 132, 0, 0>>, <<0, 16, 1, 2, 64, 64, 0, 0>>,
    <<0, 16, 4, 1, 128, 128, 0, 0>>, <<0, 8, 130, 0, 64, 64, 0, 0>>,
    <<0, 32, 32, 0, 16, 4, 1, 0>>, <<0, 16, 16, 0, 8, 130, 0, 0>>,
    <<0, 8, 8, 0, 68, 16, 0, 0>>, <<128, 0, 8, 128, 0, 2, 0, 0>>,
    <<0, 1, 4, 64, 64, 64, 0, 0>>, <<0, 1, 2, 0, 129, 128, 0, 0>>,
    <<0, 8, 2, 0, 1, 1, 1, 0>>, <<0, 4, 1, 128, 128, 128, 0, 0>>,
    <<0, 64, 0, 32, 8, 130, 0, 0>>, <<0, 32, 0, 16, 4, 65, 0, 0>>,
    <<0, 16, 0, 136, 32, 8, 0, 0>>, <<0, 8, 0, 17, 32, 0, 0, 0>>,
    <<0, 4, 64, 0, 1, 8, 0, 0>>, <<0, 2, 0, 1, 1, 1, 1, 0>>,
    <<0, 12, 160, 144, 128, 96, 0, 0>>, <<0, 2, 0, 1, 1, 1, 1, 0>>,
    <<0, 1, 128, 64, 64, 128, 0, 0>>, <<0, 1, 32, 32, 32, 0, 1, 0>>,
    <<0, 161, 0, 144, 128, 128, 0, 0>>, <<0, 1, 5, 128, 128, 128, 0, 0>>,
    <<0, 1, 8, 128, 128, 128, 0, 0>>, <<0, 1, 16, 128, 128, 128, 0, 0>>,
    <<128, 66, 0, 64, 64, 64, 0, 0>>, <<64, 33, 0, 64, 64, 64, 0, 0>>,
    <<128, 0, 0, 4, 129, 32, 0, 0>>, <<32, 33, 0, 64, 64, 64, 0, 0>>,
    <<64, 0, 0, 4, 129, 32, 0, 0>>, <<32, 0, 0, 4, 129, 32, 0, 0>>,
    <<16, 0, 0, 4, 129, 32, 0, 0>>, <<0, 4, 0, 64, 16, 8, 0, 0>>,
    <<0, 2, 0, 64, 16, 4, 0, 0>>, <<0, 1, 0, 64, 16, 2, 0, 0>>>>

\* the bytes of the u64 of a Bitboard
bytes_of(bb) ==
  [i \in 1..8 |->
     LET bit(k) == IF ((i - 1) * 8 + k) \in bb THEN 2 ^ k ELSE 0
     IN  bit(0) + bit(1) + bit(2) + bit(3) + bit(4) + bit(5) + bit(6) + bit(7)]

\* the sum of x[i] * y[j] over the byte pairs of weight 256^k, with the
\* carry of the lower weights
RECURSIVE mul_column(_, _, _)
mul_column(x, y, k) ==
  LET RECURSIVE products(_)
      products(i) == IF i > k THEN 0 ELSE x[i + 1] * y[k - i + 1] + products(i + 1)
      carry == IF k = 0 THEN 0 ELSE mul_column(x, y, k - 1) \div 256
  IN  products(0) + carry

\* u64::wrapping_mul on bytes
wrapping_mul(x, y) == [i \in 1..8 |-> mul_column(x, y, i - 1) % 256]

\* ((occupancy & mask).wrapping_mul(magic) >> shift) as usize; the shift is
\* 0 only for an empty mask, and is otherwise at least 52
magic_index(occupancy, mask, magic, shift) ==
  LET product == wrapping_mul(bytes_of(occupancy \cap mask), magic)
  IN  IF shift = 0
      THEN product[1] + 256 * product[2] + 65536 * product[3]
      ELSE (product[8] * 256 + product[7]) \div (2 ^ (shift - 48))

rook_mask(square) ==
  LET rank == square \div 8
      file == square % 8
  IN  {rank * 8 + f : f \in {x \in 1..6 : x # file}}
        \cup {r * 8 + file : r \in {x \in 1..6 : x # rank}}

\* the zip of 1..7 with 1..7 visits the squares (r, r) only
bishop_mask(square) ==
  LET rank == square \div 8
      file == square % 8
  IN  {r * 8 + r : r \in {x \in 1..6 : abs(x - rank) = abs(x - file) /\ x - rank # 0}}

rook_shift(square) ==
  LET mask_count == Cardinality(rook_mask(square))
  IN  IF mask_count = 0 \/ mask_count >= 64 THEN 0 ELSE 64 - mask_count

bishop_shift(square) ==
  LET mask_count == Cardinality(bishop_mask(square))
  IN  IF mask_count = 0 \/ mask_count >= 64 THEN 0 ELSE 64 - mask_count

\* magic.rs rook_attacks: the four loops that set a square and break on an
\* occupied one
magic_rook_attacks(square, occupancy) ==
  LET rank == square \div 8
      file == square % 8
  IN  ray(rank, file, 1, 0, occupancy) \cup ray(rank, file, -1, 0, occupancy)
        \cup ray(rank, file, 0, 1, occupancy) \cup ray(rank, file, 0, -1, occupancy)

\* magic.rs bishop_attacks
magic_bishop_attacks(square, occupancy) ==
  LET rank == square \div 8
      file == square % 8
  IN  ray(rank, file, 1, 1, occupancy) \cup ray(rank, file, 1, -1, occupancy)
        \cup ray(rank, file, -1, 1, occupancy) \cup ray(rank, file, -1, -1, occupancy)

\* whether the u64 of a is greater than that of b
greater_u64(a, b) ==
  LET diff == (a \ b) \cup (b \ a)
  IN  diff # {} /\ (CHOOSE m \in diff : \A n \in diff : n <= m) \in a

\* the occupancy whose attacks the loop of init_rook_attacks or
\* init_bishop_attacks leaves at an index: the loop visits the subsets of
\* the mask in increasing order of their u64, so the last one written to
\* the index stays; None for an index never written
last_written(mask, magic, shift, index) ==
  LET writers == {o \in SUBSET mask : magic_index(o, mask, magic, shift) = index}
  IN  IF writers = {} THEN None
      ELSE Some(CHOOSE o \in writers : \A p \in writers \ {o} : greater_u64(o, p))

\* ROOK_ATTACKS[square][index] after init
ROOK_ATTACKS(square, index) ==
  LET o == last_written(rook_mask(square), ROOK_MAGICS[square + 1], rook_shift(square), index)
  IN  IF o = None THEN {} ELSE magic_rook_attacks(square, unwrap(o))

\* BISHOP_ATTACKS[square][index] after init
BISHOP_ATTACKS(square, index) ==
  LET o == last_written(bishop_mask(square), BISHOP_MAGICS[square + 1],
                        bishop_shift(square), index)
  IN  IF o = None THEN {} ELSE magic_bishop_attacks(square, unwrap(o))

\* magic::get_rook_attacks
magic_get_rook_attacks(square, occupancy) ==
  ROOK_ATTACKS(square, magic_index(occupancy, rook_mask(square), ROOK_MAGICS[square + 1],
                                   rook_shift(square)))

\* magic::get_bishop_attacks
magic_get_bishop_attacks(square, occupancy) ==
  BISHOP_ATTACKS(square, magic_index(occupancy, bishop_mask(square),
                                     BISHOP_MAGICS[square + 1], bishop_shift(square)))

(***************************************************************************)
(* moves.rs: Move::to_algebraic                                            *)
(***************************************************************************)
Move_to_algebraic(mv) ==
  LET from == to_algebraic(Move_from(mv))
      to == to_algebraic(Move_to(mv))
  IN  IF is_promotion(mv) /\ is_some(promotion_piece(mv))
      THEN from \o to \o <<CASE unwrap(promotion_piece(mv)) = Knight -> "n"
                             [] unwrap(promotion_piece(mv)) = Bishop -> "b"
                             [] unwrap(promotion_piece(mv)) = Rook -> "r"
                             [] unwrap(promotion_piece(mv)) = Queen -> "q"
                             [] OTHER -> "?">>
      ELSE from \o to

(***************************************************************************)
(* uci/src/lib.rs: UciEngine.  An engine is its position and its           *)
(* search_params; a handler returns the engine it leaves, its Result, and  *)
(* whether it panicked.  An Err carries the format string of its message.  *)
(***************************************************************************)
\* SearchParams::default()
SearchParams_default == [depth |-> 4, time_limit_ms |-> None, nodes_limit |-> None]

\* UciEngine::new()
UciEngine_new == [position |-> Position_new, search_params |-> SearchParams_default]

\* [&str]::join(sep)
RECURSIVE join(_, _)
join(parts, sep) ==
  IF parts = <<>> THEN <<>>
  ELSE IF Len(parts) = 1 THEN parts[1]
  ELSE parts[1] \o sep \o join(Tail(parts), sep)

\* i32 formatted by `{}`
i32_to_string(n) == IF n < 0 THEN <<"-">> \o to_string(-n) ELSE to_string(n)

handle_uci(engine) ==
  [engine |-> engine, panic |-> FALSE,
   result |-> Ok(Some(<<"i", "d", " ", "n", "a", "m", "e", " ", "C", "a", "s", "t", "o",
         "n", "o", " ", "C", "h", "e", "s", "s", " ", "E", "n", "g", "i", "n", "e", "\n",
         "i", "d", " ", "a", "u", "t", "h", "o", "r", " ", "C", "l", "a", "u", "d", "e",
         " ", "C", "o", "d", "e", "\n", "u", "c", "i", "o", "k">>))]

handle_isready(engine) ==
  [engine |-> engine, panic |-> FALSE, result |-> Ok(Some(<<"r", "e", "a", "d", "y", "o", "k">>))]

handle_ucinewgame(engine) ==
  [engine |-> [engine EXCEPT !.position = Position_new], panic |-> FALSE,
   result |-> Ok(None)]

parse_move(engine, move_str) ==
  IF Len(move_str) < 4 THEN Err("Invalid move format: {}")
  ELSE LET from_square == from_algebraic(SubSeq(move_str, 1, 2))
           to_square == from_algebraic(SubSeq(move_str, 3, 4))
           piece == IF from_square = None THEN None
                    ELSE piece_at(engine.position.board, unwrap(from_square))
           promotion == IF Len(move_str) # 5 THEN None
                        ELSE CASE move_str[5] \in {"n", "N"} -> Some(Knight)
                               [] move_str[5] \in {"b", "B"} -> Some(Bishop)
                               [] move_str[5] \in {"r", "R"} -> Some(Rook)
                               [] move_str[5] \in {"q", "Q"} -> Some(Queen)
                               [] OTHER -> None
       IN  IF from_square = None THEN Err("Invalid from square: {}")
           ELSE IF to_square = None THEN Err("Invalid to square: {}")
           ELSE IF piece = None THEN Err("No piece at {}")
           ELSE IF Len(move_str) = 5
           THEN IF promotion = None THEN Err("Invalid promotion: {}")
                ELSE Ok(new_promotion(unwrap(from_square), unwrap(to_square),
                                      unwrap(piece).piece_type, unwrap(promotion)))
           ELSE Ok(Move_new(unwrap(from_square), unwrap(to_square),
                            unwrap(piece).piece_type))

\* apply_moves: the engine it leaves and its Result; the moves before a
\* failing one stay made
RECURSIVE apply_moves(_, _)
apply_moves(engine, moves) ==
  IF moves = <<>> THEN [engine |-> engine, result |-> Ok(None)]
  ELSE the({IF ~mv.ok THEN [engine |-> engine, result |-> mv]
            ELSE the({IF made.result # "Ok"
                      THEN [engine |-> [engine EXCEPT !.position = made.self],
                            result |-> Err(made.result)]
                      ELSE apply_moves([engine EXCEPT !.position = made.self],
                                       Tail(moves)) :
                      made \in {make_move(engine.position, mv.val)}}) :
            mv \in {parse_move(engine, Head(moves))}})

\* the first n elements of a slice, or all of it
take(args, n) == SubSeq(args, 1, IF Len(args) < n THEN Len(args) ELSE n)

\* the `"startpos"` arm of handle_position
position_startpos(fresh, args) ==
  IF Len(args) > 1 /\ args[2] = <<"m", "o", "v", "e", "s">>
  THEN the({[engine |-> applied.engine, panic |-> FALSE, result |-> applied.result] :
            applied \in {apply_moves(fresh, SubSeq(args, 3, Len(args)))}})
  ELSE [engine |-> fresh, panic |-> FALSE, result |-> Ok(None)]

\* the `"fen"` arm of handle_position, from Position::from_fen(&fen) on
position_fen(engine, args, fen_parts, parsed) ==
  IF ~parsed.ok
  THEN [engine |-> engine, panic |-> FALSE, result |-> Err("Invalid FEN: {}")]
  ELSE IF Len(args) > 1 + Len(fen_parts) /\ args[1 + Len(fen_parts) + 1] = <<"m", "o", "v", "e", "s">>
  THEN the({[engine |-> applied.engine, panic |-> FALSE, result |-> applied.result] :
            applied \in {apply_moves([engine EXCEPT !.position = parsed.val],
                                     SubSeq(args, 1 + Len(fen_parts) + 2, Len(args)))}})
  ELSE [engine |-> [engine EXCEPT !.position = parsed.val], panic |-> FALSE,
        result |-> Ok(None)]

handle_position(engine, args) ==
  IF args = <<>>
  THEN [engine |-> engine, panic |-> FALSE, result |-> Err("Invalid position command")]
  ELSE IF args[1] = <<"s", "t", "a", "r", "t", "p", "o", "s">>
  THEN position_startpos([engine EXCEPT !.position = Position_new], args)
  ELSE IF args[1] = <<"f", "e", "n">>
  THEN IF Len(args) < 2
       THEN [engine |-> engine, panic |-> FALSE, result |-> Err("Missing FEN string")]
       ELSE the({the({position_fen(engine, args, take(Tail(args), 6), parsed) :
                      parsed \in {from_fen(fen)}}) :
                 fen \in {join(take(Tail(args), 6), <<" ">>)}})
  ELSE [engine |-> engine, panic |-> FALSE, result |-> Err("Invalid position type")]

\* the `while i < args.len()` loop of handle_go, i counted from 1; its
\* numbers are below 2^32
RECURSIVE go_params(_, _, _)
go_params(args, i, params) ==
  IF i > Len(args) THEN params
  ELSE IF args[i] = <<"d", "e", "p", "t", "h">>
  THEN IF i + 1 <= Len(args)
       THEN go_params(args, i + 2,
                      [params EXCEPT !.depth =
                         IF parse_u32(args[i + 1]) = None THEN 4
                         ELSE unwrap(parse_u32(args[i + 1]))])
       ELSE go_params(args, i + 1, params)
  ELSE IF args[i] = <<"m", "o", "v", "e", "t", "i", "m", "e">>
  THEN IF i + 1 <= Len(args)
       THEN go_params(args, i + 2,
                      [params EXCEPT !.time_limit_ms =
                         IF parse_u32(args[i + 1]) = None THEN Some(1000)
                         ELSE Some(unwrap(parse_u32(args[i + 1])))])
       ELSE go_params(args, i + 1, params)
  ELSE IF args[i] = <<"n", "o", "d", "e", "s">>
  THEN IF i + 1 <= Len(args)
       THEN go_params(args, i + 2,
                      [params EXCEPT !.nodes_limit =
                         IF parse_u32(args[i + 1]) = None THEN Some(1000000)
                         ELSE Some(unwrap(parse_u32(args[i + 1])))])
       ELSE go_params(args, i + 1, params)
  ELSE IF args[i] = <<"i", "n", "f", "i", "n", "i", "t", "e">>
  THEN go_params(args, i + 1,
                 [params EXCEPT !.time_limit_ms = None, !.nodes_limit = None])
  ELSE go_params(args, i + 1, params)

\* the response of handle_go to a search that found a move
go_response(result) ==
  <<"b", "e", "s", "t", "m", "o", "v", "e", " ">> \o Move_to_algebraic(unwrap(result.best_move))
    \o <<"\n", "i", "n", "f", "o", " ", "d", "e", "p", "t", "h", " ">> \o to_string(result.depth)
    \o <<" ", "s", "c", "o", "r", "e", " ", "c", "p", " ">> \o i32_to_string(result.score)
    \o <<" ", "n", "o", "d", "e", "s", " ">> \o to_string(result.stats.nodes_searched)

\* handle_go from search::search on; the Err of a panic is its message
go_search(engine, params) ==
  the({IF result.panic
       THEN [engine |-> [engine EXCEPT !.search_params = params], panic |-> TRUE,
             result |-> Err(IF result.depth < 0
                            THEN "attempt to subtract with overflow"
                            ELSE "King not found")]
       ELSE IF is_some(result.best_move)
       THEN [engine |-> [engine EXCEPT !.search_params = params], panic |-> FALSE,
             result |-> Ok(Some(go_response(result)))]
       ELSE [engine |-> [engine EXCEPT !.search_params = params], panic |-> FALSE,
             result |-> Ok(Some(<<"b", "e", "s", "t", "m", "o", "v", "e", " ", "0", "0", "0", "0">>))] :
       result \in {search(engine.position, params.depth)}})

handle_go(engine, args) ==
  the({go_search(engine, params) : params \in {go_params(args, 1, SearchParams_default)}})

handle_stop(engine) == [engine |-> engine, panic |-> FALSE, result |-> Ok(None)]

handle_debug(engine, args) ==
  IF args # <<>> /\ args[1] = <<"o", "n">>
  THEN [engine |-> engine, panic |-> FALSE, result |-> Ok(Some(<<"D", "e", "b", "u", "g",
        " ", "m", "o", "d", "e", " ", "e", "n", "a", "b", "l", "e", "d">>))]
  ELSE [engine |-> engine, panic |-> FALSE, result |-> Ok(Some(<<"D", "e", "b", "u", "g",
        " ", "m", "o", "d", "e", " ", "d", "i", "s", "a", "b", "l", "e", "d">>))]

handle_setoption(engine, args) == [engine |-> engine, panic |-> FALSE, result |-> Ok(None)]

handle_register(engine) == [engine |-> engine, panic |-> FALSE, result |-> Ok(None)]

\* the `match parts[0]` of handle_command
dispatch(engine, parts) ==
  CASE parts[1] = <<"u", "c", "i">> -> handle_uci(engine)
    [] parts[1] = <<"i", "s", "r", "e", "a", "d", "y">> -> handle_isready(engine)
    [] parts[1] = <<"u", "c", "i", "n", "e", "w", "g", "a", "m", "e">> -> handle_ucinewgame(engine)
    [] parts[1] = <<"p", "o", "s", "i", "t", "i", "o", "n">> -> handle_position(engine, Tail(parts))
    [] parts[1] = <<"g", "o">> -> handle_go(engine, Tail(parts))
    [] parts[1] = <<"s", "t", "o", "p">> -> handle_stop(engine)
    [] parts[1] = <<"q", "u", "i", "t">> -> [engine |-> engine, panic |-> FALSE, result |-> Ok(None)]
    [] parts[1] = <<"d", "e", "b", "u", "g">> -> handle_debug(engine, Tail(parts))
    [] parts[1] = <<"s", "e", "t", "o", "p", "t", "i", "o", "n">> -> handle_setoption(engine, Tail(parts))
    [] parts[1] = <<"r", "e", "g", "i", "s", "t", "e", "r">> -> handle_register(engine)
    [] OTHER -> [engine |-> engine, panic |-> FALSE,
                 result |-> Ok(Some(<<"U", "n", "k", "n", "o", "w", "n", " ", "c", "o", "m", "m", "a", "n", "d">>))]

handle_command(engine, command) ==
  the({IF parts = <<>> THEN [engine |-> engine, panic |-> FALSE, result |-> Ok(None)]
       ELSE the({dispatch(engine, args) : args \in {parts}}) :
       parts \in {split_whitespace(command)}})

(***************************************************************************)
(* The state machine: one Position (the `position` of UciEngine, or of a   *)
(* test) and the calls made on it.                                         *)
(*                                                                         *)
(*   position  the Position                                                *)
(*   fen_in    the string it was parsed from, None for Position::new()     *)
(*   last      the last call: its name, its move (for set_piece, unused)   *)
(*             and its Result                                              *)
(*   before    the Position before the last call                           *)
(*   shadow    for each make_move that returned Ok and was not undone, the *)
(*             Position (and track) before it                              *)
(*   calls     the number of make_move and set_piece calls                 *)
(*   net       make_move calls that returned Ok minus undo_move calls that *)
(*             returned Ok                                                 *)
(*   failed    whether a make_move call returned Err                       *)
(*   track     which kings have moved, and what became of the rook on each *)
(*             corner: "home", "moved", "captured", or "absent"            *)
(***************************************************************************)
VARIABLES position, fen_in, last, before, shadow, calls, net, failed, track,
          found, uci

vars == <<position, fen_in, last, before, shadow, calls, net, failed, track,
          found, uci>>

Corners == {a1, h1, a8, h8}

corner_color(sq) == IF sq \in {a1, h1} THEN White ELSE Black

track_init(pos) ==
  [king_moved |-> [c \in 0..1 |-> FALSE],
   corner |-> [sq \in Corners |->
                IF piece_at(pos.board, sq) = Some(Piece_new(corner_color(sq), Rook))
                THEN "home" ELSE "absent"]]

\* track after make_move(mv) on pos
track_after(tr, pos, mv) ==
  LET from == Move_from(mv)
      to == Move_to(mv)
      piece == unwrap(piece_at(pos.board, from))
      rook_from == IF ~is_en_passant(mv) /\ is_castling(mv)
                      /\ castling_rook_squares(to) # None
                   THEN {unwrap(castling_rook_squares(to))[1]} ELSE {}
  IN  [king_moved |-> [c \in 0..1 |->
                        tr.king_moved[c] \/ (piece.piece_type = King /\ piece.color = c)],
       corner |-> [sq \in Corners |->
                    IF tr.corner[sq] # "home" THEN tr.corner[sq]
                    ELSE IF from = sq \/ sq \in rook_from THEN "moved"
                    ELSE IF to = sq THEN "captured"
                    ELSE "home"]]

\* the castling moves a caller may build with Move::new_castling for the
\* king on its home square: to the c-, g- and b-file of its rank
castling_inputs(pos) ==
  LET king == find_king(pos, pos.side_to_move)
  IN  IF king = None \/ unwrap(king) # Square_new(4, rank_of(unwrap(king))) THEN {}
         ELSE IF rank_of(unwrap(king)) \notin {0, 7} THEN {}
      ELSE {new_castling(unwrap(king), Square_new(f, rank_of(unwrap(king))), pos.side_to_move) :
              f \in {1, 2, 6}}

\* the en-passant captures a caller may build with Move::new_en_passant:
\* a pawn of the side to move that attacks the en-passant target
en_passant_inputs(pos) ==
  IF pos.en_passant = None THEN {}
  ELSE LET to == unwrap(pos.en_passant)
           color == pos.side_to_move
           sources == IF color = White THEN southwest({to}) \cup southeast({to})
                      ELSE northwest({to}) \cup northeast({to})
       IN  {new_en_passant(from, to) :
              from \in {x \in sources \cap piece_bitboard(pos.board, color, Pawn) :
                          IF color = White THEN rank_of(to) >= 1 ELSE rank_of(to) <= 6}}

seq_range(s) == {s[i] : i \in 1..Len(s)}

\* the moves make_move is called with: the generated ones, and the
\* castling and en-passant moves of the constructors
move_inputs(pos) ==
  seq_range(Position_generate_moves(pos)) \cup castling_inputs(pos) \cup en_passant_inputs(pos)

\* the squares and pieces set_piece is called with
EditSquares == {a1, Square_new(4, 3), Square_new(4, 7)}

EditPieces == {None, Some(Piece_new(White, Queen)), Some(Piece_new(Black, Knight))}

StartPositions == {[fen |-> None, pos |-> Position_new]}
                    \cup {[fen |-> Some(f), pos |-> from_fen(f).val] : f \in InitFens}

Init ==
  \E start \in StartPositions :
    /\ position = start.pos
    /\ fen_in = start.fen
    /\ last = [op |-> "init", mv |-> 0, result |-> "Ok"]
    /\ before = start.pos
    /\ shadow = <<>>
    /\ calls = 0
    /\ net = 0
    /\ failed = FALSE
    /\ track = track_init(start.pos)
    /\ found = None
    /\ uci = None

\* position.make_move(&mv)
MakeMove ==
  \E mv \in move_inputs(position) :
    /\ calls < MaxCalls
    /\ ~make_move_panics(position, mv)
    /\ LET r == make_move(position, mv)
       IN  /\ position' = r.self
           /\ last' = [op |-> "make", mv |-> mv, result |-> r.result]
           /\ net' = IF r.result = "Ok" THEN net + 1 ELSE net
           /\ shadow' = IF r.result = "Ok"
                        THEN Append(shadow, [pos |-> position, track |-> track])
                        ELSE shadow
           /\ failed' = (failed \/ r.result # "Ok")
    /\ before' = position
    /\ calls' = calls + 1
    /\ track' = track_after(track, position, mv)
    /\ UNCHANGED <<fen_in, found, uci>>

\* position.undo_move()
UndoMove ==
  LET r == undo_move(position)
      popped == r.result = "Ok" /\ shadow # <<>>
  IN  /\ position' = r.self
      /\ last' = [op |-> "undo", mv |-> 0, result |-> r.result]
      /\ before' = position
      /\ net' = IF r.result = "Ok" THEN net - 1 ELSE net
      /\ shadow' = IF popped THEN SubSeq(shadow, 1, Len(shadow) - 1) ELSE shadow
      /\ track' = IF popped THEN shadow[Len(shadow)].track ELSE track
      /\ UNCHANGED <<fen_in, calls, failed, found, uci>>

\* position.board.set_piece(sq, piece)
SetPiece ==
  \E sq \in EditSquares, piece \in EditPieces :
    /\ calls < MaxCalls
    /\ position' = [position EXCEPT !.board = set_piece(position.board, sq, piece)]
    /\ last' = [op |-> "set", mv |-> 0, result |-> "Ok"]
    /\ before' = position
    /\ calls' = calls + 1
    /\ UNCHANGED <<fen_in, shadow, net, failed, track, found, uci>>

Next == MakeMove \/ UndoMove

Spec == Init /\ [][Next]_vars

NextBoard == SetPiece \/ MakeMove \/ UndoMove

\* the calls on a Position together with set_piece on its board
BoardSpec == Init /\ [][NextBoard]_vars

(***************************************************************************)
(* Searches: a position is set up, at most MaxPlies moves are made, and    *)
(* search or iterative_deepening is called once.                           *)
(*                                                                         *)
(*   found    None, or the call made: its name, its depth, its outcome, and *)
(*            for iterative_deepening the results of the searches it ran   *)
(***************************************************************************)
SearchPositions == {[fen |-> None, pos |-> Position_new]}
                     \cup {[fen |-> Some(f), pos |-> from_fen(f).val] : f \in SearchFens}

\* the depths a position is searched to
search_depths(pos) ==
  IF Cardinality(pos.board.occupied) <= SmallBoard THEN 1..MaxDepth ELSE 1..1

SearchInit ==
  \E start \in SearchPositions :
    /\ position = start.pos
    /\ fen_in = start.fen
    /\ last = [op |-> "init", mv |-> 0, result |-> "Ok"]
    /\ before = start.pos
    /\ shadow = <<>>
    /\ calls = 0
    /\ net = 0
    /\ failed = FALSE
    /\ track = track_init(start.pos)
    /\ found = None
    /\ uci = None

\* a move made before the search
Play == found = None /\ calls < MaxPlies /\ MakeMove

\* search(&position, &SearchParams { depth, .. })
Search ==
  \E depth \in search_depths(position) :
    /\ found = None
    /\ \E result \in {search(position, depth)} :
         /\ found' = Some([call |-> "search", depth |-> depth,
                           outcome |-> Ok(result), ran |-> <<result>>])
         /\ last' = [op |-> "search", mv |-> depth,
                     result |-> IF result.panic THEN "Panic" ELSE "Ok"]
    /\ before' = position
    /\ UNCHANGED <<position, fen_in, shadow, calls, net, failed, track, uci>>

\* iterative_deepening(&position, max_depth, None)
Deepen ==
  \E max_depth \in {0} \cup search_depths(position) :
    /\ found = None
    /\ \E ran \in {deepening_loop(position, 1, max_depth)} :
         /\ found' = Some([call |-> "iterative_deepening", depth |-> max_depth,
                           outcome |-> IF ran = <<>> THEN Err("InvalidMove")
                                       ELSE Ok(ran[Len(ran)]),
                           ran |-> ran])
         /\ last' = [op |-> "deepen", mv |-> max_depth,
                     result |-> IF ran = <<>> THEN "Err"
                                ELSE IF ran[Len(ran)].panic THEN "Panic" ELSE "Ok"]
    /\ before' = position
    /\ UNCHANGED <<position, fen_in, shadow, calls, net, failed, track, uci>>

NextSearch == Play \/ Search \/ Deepen

SearchSpec == SearchInit /\ [][NextSearch]_vars

(***************************************************************************)
(* The UCI loop: UciEngine::new(), then run() reads lines until quit, the  *)
(* end of the input, an Err or a panic.                                    *)
(*                                                                         *)
(*   uci      None outside this loop; in it, the status of the process     *)
(*            ("reading", "exit 0", "exit 1", "panicked"), the engine's    *)
(*            search_params, and what was written to stdout and stderr     *)
(***************************************************************************)
\* "uci"
UciLine ==
  <<"u", "c", "i">>

\* "isready"
IsReadyLine ==
  <<"i", "s", "r", "e", "a", "d", "y">>

\* "ucinewgame"
NewGameLine ==
  <<"u", "c", "i", "n", "e", "w", "g", "a", "m", "e">>

\* "stop"
StopLine ==
  <<"s", "t", "o", "p">>

\* "quit"
QuitLine ==
  <<"q", "u", "i", "t">>

\* ""
EmptyLine ==
  <<>>

\* "hello"
UnknownLine ==
  <<"h", "e", "l", "l", "o">>

\* "debug on"
DebugLine ==
  <<"d", "e", "b", "u", "g", " ", "o", "n">>

\* "setoption name Hash value 16"
SetOptionLine ==
  <<"s", "e", "t", "o", "p", "t", "i", "o", "n", " ", "n", "a", "m", "e",
    " ", "H", "a", "s", "h", " ", "v", "a", "l", "u", "e", " ", "1", "6">>

\* "register later"
RegisterLine ==
  <<"r", "e", "g", "i", "s", "t", "e", "r", " ", "l", "a", "t", "e", "r">>

\* "position"
PositionLine ==
  <<"p", "o", "s", "i", "t", "i", "o", "n">>

\* "position startpos"
StartposLine ==
  <<"p", "o", "s", "i", "t", "i", "o", "n", " ", "s", "t", "a", "r", "t",
    "p", "o", "s">>

\* "position startpos moves e2e4"
StartposE2E4Line ==
  <<"p", "o", "s", "i", "t", "i", "o", "n", " ", "s", "t", "a", "r", "t",
    "p", "o", "s", " ", "m", "o", "v", "e", "s", " ", "e", "2", "e", "4">>

\* "position startpos moves e3e4"
StartposE3E4Line ==
  <<"p", "o", "s", "i", "t", "i", "o", "n", " ", "s", "t", "a", "r", "t",
    "p", "o", "s", " ", "m", "o", "v", "e", "s", " ", "e", "3", "e", "4">>

\* "position fen bad"
BadFenLine ==
  <<"p", "o", "s", "i", "t", "i", "o", "n", " ", "f", "e", "n", " ", "b",
    "a", "d">>

\* "go depth 1"
GoDepth1Line ==
  <<"g", "o", " ", "d", "e", "p", "t", "h", " ", "1">>

\* "go depth 3"
GoDepth3Line ==
  <<"g", "o", " ", "d", "e", "p", "t", "h", " ", "3">>

\* "go"
GoLine ==
  <<"g", "o">>

\* "position fen "
PositionFenWords ==
  <<"p", "o", "s", "i", "t", "i", "o", "n", " ", "f", "e", "n", " ">>

\* "go depth 0"
GoDepth0Line ==
  <<"g", "o", " ", "d", "e", "p", "t", "h", " ", "0">>

\* "position startpos moves e2e4 e3e4"
StartposE2E4E3E4Line ==
  <<"p", "o", "s", "i", "t", "i", "o", "n", " ", "s", "t", "a", "r",
    "t", "p", "o", "s", " ", "m", "o", "v", "e", "s", " ", "e", "2",
    "e", "4", " ", "e", "3", "e", "4">>

\* " moves e1g1"
MovesE1G1Words ==
  <<" ", "m", "o", "v", "e", "s", " ", "e", "1", "g", "1">>

\* " moves e5d6"
MovesE5D6Words ==
  <<" ", "m", "o", "v", "e", "s", " ", "e", "5", "d", "6">>

\* White castles short, written as the king's move
CastleLine == PositionFenWords \o CastlingFen \o MovesE1G1Words

\* White's pawn captures en passant
EnPassantLine == PositionFenWords \o EnPassantFen \o MovesE5D6Words

\* the input lines of the model
UciLines ==
  {UciLine, IsReadyLine, NewGameLine, StopLine, QuitLine, EmptyLine, UnknownLine,
   DebugLine, SetOptionLine, RegisterLine, PositionLine, StartposLine,
   StartposE2E4Line, StartposE3E4Line, StartposE2E4E3E4Line, BadFenLine,
   GoDepth0Line, GoDepth1Line, CastleLine, EnPassantLine,
   PositionFenWords \o FoolsMateFen, PositionFenWords \o KingsFen,
   PositionFenWords \o NoMovesFen}

\* the searches of default depth and of depth MaxDepth, for small boards
DeepUciLines == {GoDepth3Line, GoLine}

uci_lines(pos) ==
  IF Cardinality(pos.board.occupied) <= SmallBoard THEN UciLines \cup DeepUciLines
  ELSE UciLines

\* how a panic of handle_command ends the process: the message on stderr
\* and the exit of a panic.  A build without overflow checks does not panic
\* on `params.depth - 1` for a depth of 0: its search of depth 2^32 - 1 is
\* not followed here, the process stays in it
Builds ==
  {[status |-> "panicked", result |-> "Panic"], [status |-> "searching", result |-> "Wrapped"]}

\* main: UciEngine::new()
UciInit ==
  /\ position = UciEngine_new.position
  /\ fen_in = None
  /\ last = [op |-> "init", mv |-> 0, result |-> "Ok"]
  /\ before = UciEngine_new.position
  /\ shadow = <<>>
  /\ calls = 0
  /\ net = 0
  /\ failed = FALSE
  /\ track = track_init(UciEngine_new.position)
  /\ found = None
  /\ uci = [status |-> "reading", search_params |-> UciEngine_new.search_params,
            stdout |-> <<>>, stderr |-> <<>>]

\* one turn of the `for line in stdin.lock().lines()` loop of run, and what
\* main does when run returns
ReadLine ==
  \E line \in uci_lines(position) :
    /\ uci.status = "reading"
    /\ calls < MaxLines
    /\ \E r \in {handle_command([position |-> position,
                                   search_params |-> uci.search_params], line)} :
       \E wrapped \in IF r.panic /\ r.result.err = "attempt to subtract with overflow"
                      THEN Builds ELSE {b \in Builds : b.status = "panicked"} :
         /\ position' = r.engine.position
         /\ uci' = IF r.panic
                   THEN [status |-> wrapped.status,
                         search_params |-> uci.search_params,
                         stdout |-> uci.stdout,
                         stderr |-> IF wrapped.status = "panicked"
                                    THEN Append(uci.stderr, r.result.err)
                                    ELSE uci.stderr]
                   ELSE IF ~r.result.ok
                   THEN [status |-> "exit 1",
                         search_params |-> r.engine.search_params,
                         stdout |-> uci.stdout,
                         stderr |-> Append(uci.stderr, r.result.err)]
                   ELSE [status |-> IF line = QuitLine THEN "exit 0" ELSE "reading",
                         search_params |-> r.engine.search_params,
                         stdout |-> IF is_some(r.result.val)
                                    THEN Append(uci.stdout, unwrap(r.result.val))
                                    ELSE uci.stdout,
                         stderr |-> uci.stderr]
         /\ last' = [op |-> "line", mv |-> line,
                     result |-> IF r.panic THEN wrapped.result
                                ELSE IF ~r.result.ok THEN "Err" ELSE "Ok"]
    /\ before' = position
    /\ calls' = calls + 1
    /\ UNCHANGED <<fen_in, shadow, net, failed, track, found>>

\* the input ends: the loop ends and run returns Ok(())
EndOfInput ==
  /\ uci.status = "reading"
  /\ uci' = [uci EXCEPT !.status = "exit 0"]
  /\ last' = [op |-> "eof", mv |-> 0, result |-> "Ok"]
  /\ before' = position
  /\ UNCHANGED <<position, fen_in, shadow, calls, net, failed, track, found>>

NextUci == ReadLine \/ EndOfInput

UciSpec == UciInit /\ [][NextUci]_vars

(***************************************************************************)
(* Squares and their names: Square::from_algebraic is called on a string,  *)
(* or Square::to_algebraic on a square.                                    *)
(*                                                                         *)
(*   found    None, or the call made: its name, its argument and the value *)
(*            it returned                                                  *)
(***************************************************************************)
\* the characters of the strings from_algebraic is called with
SquareChars == {"a", "b", "c", "d", "e", "f", "g", "h", "i", "B",
                "0", "1", "2", "3", "4", "5", "6", "7", "8", "9"}

\* the strings from_algebraic is called with: every string of at most two
\* of these characters, and some of three
SquareTexts ==
  {<<>>} \cup {<<c>> : c \in SquareChars}
    \cup {<<c, d>> : c \in SquareChars, d \in SquareChars}
    \cup {<<"a", "1", d>> : d \in SquareChars}

SquareInit ==
  /\ position = Position_new
  /\ fen_in = None
  /\ last = [op |-> "init", mv |-> 0, result |-> "Ok"]
  /\ before = Position_new
  /\ shadow = <<>>
  /\ calls = 0
  /\ net = 0
  /\ failed = FALSE
  /\ track = track_init(Position_new)
  /\ found = None
  /\ uci = None

\* Square::from_algebraic(s)
ParseSquare ==
  \E s \in SquareTexts :
    /\ found' = Some([call |-> "from_algebraic", arg |-> s, value |-> from_algebraic(s)])
    /\ last' = [op |-> "from_algebraic", mv |-> 0,
                result |-> IF from_algebraic(s) = None THEN "None" ELSE "Some"]
    /\ UNCHANGED <<position, fen_in, before, shadow, calls, net, failed, track, uci>>

\* sq.to_algebraic()
FormatSquare ==
  \E sq \in Squares :
    /\ found' = Some([call |-> "to_algebraic", arg |-> sq, value |-> to_algebraic(sq)])
    /\ last' = [op |-> "to_algebraic", mv |-> 0, result |-> "Ok"]
    /\ UNCHANGED <<position, fen_in, before, shadow, calls, net, failed, track, uci>>

NextSquare == ParseSquare \/ FormatSquare

SquareSpec == SquareInit /\ [][NextSquare]_vars

(***************************************************************************)
(* Evaluation: a board is set up with set_piece on Board::new(), or is the *)
(* starting position, and evaluate or is_insufficient_material is called.  *)
(*                                                                         *)
(*   found    None, or the call made: its name and the value it returned   *)
(***************************************************************************)
\* the squares and pieces the boards are set up with
EvalSquares == {Square_new(4, 0), Square_new(4, 7), Square_new(2, 2), Square_new(3, 6)}

EvalPieces ==
  {Piece_new(White, King), Piece_new(Black, King), Piece_new(White, Knight),
   Piece_new(Black, Bishop), Piece_new(White, Pawn), Piece_new(Black, Rook),
   Piece_new(White, Queen), Piece_new(White, Bishop)}

EvalInit ==
  \E start \in {Position_new, [Position_new EXCEPT !.board = Board_new]} :
    /\ position = start
    /\ fen_in = None
    /\ last = [op |-> "init", mv |-> 0, result |-> "Ok"]
    /\ before = start
    /\ shadow = <<>>
    /\ calls = 0
    /\ net = 0
    /\ failed = FALSE
    /\ track = track_init(start)
    /\ found = None
    /\ uci = None

\* position.board.set_piece(sq, Some(piece)) on an empty square
Place ==
  \E sq \in EvalSquares \cap position.board.empty, piece \in EvalPieces :
    /\ Cardinality(position.board.occupied) < MaxPieces
    /\ position' = [position EXCEPT !.board = set_piece(position.board, sq, Some(piece))]
    /\ last' = [op |-> "set", mv |-> 0, result |-> "Ok"]
    /\ before' = position
    /\ found' = None
    /\ UNCHANGED <<fen_in, shadow, calls, net, failed, track, uci>>

\* position.side_to_move = position.side_to_move.opposite()
Turn ==
  /\ position' = [position EXCEPT !.side_to_move = opposite(position.side_to_move)]
  /\ last' = [op |-> "turn", mv |-> 0, result |-> "Ok"]
  /\ before' = position
  /\ found' = None
  /\ UNCHANGED <<fen_in, shadow, calls, net, failed, track, uci>>

\* evaluate(&position)
Evaluate ==
  /\ found' = Some([call |-> "evaluate", value |-> evaluate(position)])
  /\ last' = [op |-> "evaluate", mv |-> 0, result |-> "Ok"]
  /\ UNCHANGED <<position, fen_in, before, shadow, calls, net, failed, track, uci>>

\* is_insufficient_material(&position.board)
Material ==
  /\ found' = Some([call |-> "is_insufficient_material",
                    value |-> is_insufficient_material(position.board)])
  /\ last' = [op |-> "is_insufficient_material", mv |-> 0, result |-> "Ok"]
  /\ UNCHANGED <<position, fen_in, before, shadow, calls, net, failed, track, uci>>

NextEval == Place \/ Turn \/ Evaluate \/ Material

EvalSpec == EvalInit /\ [][NextEval]_vars

(***************************************************************************)
(* The search tree: a position is set up, at most MaxPlies moves are made, *)
(* and alpha_beta or quiescence_search is called once on it with a window. *)
(*                                                                         *)
(*   found    None, or the call made: its name, its depth, its window and  *)
(*            the record it returned                                       *)
(***************************************************************************)
TreePositions ==
  SearchPositions \cup {[fen |-> Some(CaptureFen), pos |-> from_fen(CaptureFen).val]}

\* the windows <<alpha, beta>> of a call
Windows == {<<MinScore, MaxScore>>, <<-100, 100>>, <<50, 200>>, <<0, 0>>}

TreeInit ==
  \E start \in TreePositions :
    /\ position = start.pos
    /\ fen_in = start.fen
    /\ last = [op |-> "init", mv |-> 0, result |-> "Ok"]
    /\ before = start.pos
    /\ shadow = <<>>
    /\ calls = 0
    /\ net = 0
    /\ failed = FALSE
    /\ track = track_init(start.pos)
    /\ found = None
    /\ uci = None

\* alpha_beta(&position, depth, alpha, beta, &mut stats)
AlphaBeta ==
  \E depth \in {0} \cup search_depths(position), window \in Windows :
    /\ found = None
    /\ \E result \in {alpha_beta(position, depth, window[1], window[2],
                                 SearchStats_default)} :
         /\ found' = Some([call |-> "alpha_beta", depth |-> depth, alpha |-> window[1],
                           beta |-> window[2], outcome |-> result])
         /\ last' = [op |-> "alpha_beta", mv |-> depth,
                     result |-> IF result.panic THEN "Panic" ELSE "Ok"]
    /\ before' = position
    /\ UNCHANGED <<position, fen_in, shadow, calls, net, failed, track, uci>>

\* quiescence_search(&position, alpha, beta, &mut stats)
Quiesce ==
  \E window \in Windows :
    /\ found = None
    /\ \E result \in {quiescence_search(position, window[1], window[2],
                                        SearchStats_default)} :
         /\ found' = Some([call |-> "quiescence_search", depth |-> 0,
                           alpha |-> window[1], beta |-> window[2],
                           outcome |-> result])
         /\ last' = [op |-> "quiescence_search", mv |-> 0, result |-> "Ok"]
    /\ before' = position
    /\ UNCHANGED <<position, fen_in, shadow, calls, net, failed, track, uci>>

NextTree == Play \/ AlphaBeta \/ Quiesce

TreeSpec == TreeInit /\ [][NextTree]_vars

(***************************************************************************)
(* Properties                                                              *)
(***************************************************************************)
made_ok == last.op = "make" /\ last.result = "Ok"

\* the Position a behaviour started from
start_position == IF fen_in = None THEN Position_new ELSE from_fen(unwrap(fen_in)).val

\* C1: after make_move returned Ok, undo_move restores every field of the
\* Position, the history included, to its value before the make; and after
\* as many undos as makes the Position is the one the behaviour started from.
C1_MakeUndoRestores ==
  /\ [][(last'.op = "undo" /\ last'.result = "Ok" /\ ~failed /\ shadow # <<>>)
          => position' = shadow[Len(shadow)].pos]_vars
  /\ []((~failed /\ net = 0) => position = start_position)

\* two makes, then two undos
C1_Witness ==
  /\ last.op = "undo" /\ last.result = "Ok" /\ ~failed
  /\ net = 0 /\ calls = 2
  /\ before # position

\* C2: make_move sets the halfmove clock to 0 when the moving piece is a
\* pawn or the destination was occupied before the move, and otherwise
\* adds 1 to it.
C2_HalfmoveClock ==
  made_ok =>
    position.halfmove_clock =
      IF \/ Move_piece_type(last.mv) = Pawn
         \/ is_some(piece_at(before.board, Move_to(last.mv)))
      THEN 0
      ELSE before.halfmove_clock + 1

\* the right of each corner
right_of(cr, sq) ==
  CASE sq = h1 -> cr.white_kingside
    [] sq = a1 -> cr.white_queenside
    [] sq = h8 -> cr.black_kingside
    [] sq = a8 -> cr.black_queenside

\* C3: a castling right is false whenever its king has moved, or its rook
\* has moved from its corner or was captured there; and make_move never
\* turns a right from false to true.
C3_CastlingRights ==
  ~failed =>
    /\ \A sq \in Corners :
         right_of(position.castling_rights, sq) =>
           /\ ~track.king_moved[corner_color(sq)]
           /\ track.corner[sq] \notin {"moved", "captured"}
    /\ made_ok =>
         \A sq \in Corners :
           right_of(position.castling_rights, sq) => right_of(before.castling_rights, sq)

sign(x) == IF x > 0 THEN 1 ELSE IF x < 0 THEN -1 ELSE 0

max(x, y) == IF x >= y THEN x ELSE y

\* whether a piece of the given type and color on square p attacks square
\* sq under the rules of chess
attacks(piece_type, color, p, sq, occupied) ==
  LET dr == rank_of(sq) - rank_of(p)
      df == file_of(sq) - file_of(p)
      n == max(abs(dr), abs(df))
      clear == \A k \in 1..(n - 1) :
                 Square_new(file_of(p) + k * sign(df), rank_of(p) + k * sign(dr))
                   \notin occupied
      diagonal == abs(dr) = abs(df) /\ n > 0 /\ clear
      straight == (dr = 0) # (df = 0) /\ clear
  IN  CASE piece_type = Pawn -> abs(df) = 1 /\ dr = (IF color = White THEN 1 ELSE -1)
        [] piece_type = Knight -> {abs(dr), abs(df)} = {1, 2}
        [] piece_type = King -> n = 1
        [] piece_type = Bishop -> diagonal
        [] piece_type = Rook -> straight
        [] piece_type = Queen -> diagonal \/ straight

attacked_by_rules(b, sq, by_color) ==
  \E t \in 0..5 : \E p \in b.pieces[by_color][t] : attacks(t, by_color, p, sq, b.occupied)

\* C4: is_square_attacked(sq, by_color) is true exactly when a pawn,
\* knight, king, bishop, rook or queen of by_color attacks sq; and in_check
\* is true whenever the king of the side to move is attacked.
C4_IsSquareAttacked ==
  /\ \A sq \in Squares, by_color \in 0..1 :
       is_square_attacked(position, sq, by_color)
         = attacked_by_rules(position.board, sq, by_color)
  /\ is_some(find_king(position, position.side_to_move)) =>
       in_check(position)
         = attacked_by_rules(position.board,
                             unwrap(find_king(position, position.side_to_move)),
                             opposite(position.side_to_move))

board_invariants(b) ==
  /\ b.white \cap b.black = {}
  /\ b.occupied = b.white \cup b.black
  /\ b.empty = Squares \ b.occupied
  /\ b.white = UNION {b.pieces[White][t] : t \in 0..5}
  /\ b.black = UNION {b.pieces[Black][t] : t \in 0..5}
  /\ \A sq \in b.occupied :
       Cardinality({ct \in (0..1) \X (0..5) : sq \in b.pieces[ct[1]][ct[2]]}) = 1

\* C5: in every Board reached by set_piece, make_move and undo_move,
\* white and black are disjoint, occupied is their union, empty its
\* complement, white and black are the unions of their six piece boards,
\* and every occupied square is in exactly one of the twelve.
C5_BoardInvariants ==
  /\ board_invariants(position.board)
  /\ \A i \in 1..Len(position.history) : board_invariants(position.history[i].board)

\* a piece was put on, or moved to, a square that held another piece
C5_Witness ==
  /\ calls = 2
  /\ last.op \in {"set", "make"}
  /\ before.board.occupied # {}
  /\ \E sq \in before.board.occupied \cap position.board.occupied :
       /\ piece_at(before.board, sq) # piece_at(position.board, sq)
       /\ unwrap(piece_at(before.board, sq)).color
            # unwrap(piece_at(position.board, sq)).color

\* C6: undo_move returns InvalidMove exactly when the history is empty and
\* then changes nothing; otherwise it pops one entry; so while no make_move
\* failed, the history is as long as the makes minus the undos.
C6_UndoHistory ==
  /\ last.op = "undo" =>
       /\ (last.result = "InvalidMove") = (before.history = <<>>)
       /\ last.result = "InvalidMove" => position = before
       /\ last.result = "Ok" => Len(position.history) = Len(before.history) - 1
  /\ ~failed => Len(position.history) = net

\* an undo on the history two makes and two undos left empty
C6_Witness ==
  /\ last.op = "undo" /\ last.result = "InvalidMove"
  /\ calls = 2 /\ net = 0 /\ ~failed

\* whether the last move was an unflagged pawn move of two ranks
plain_double_push(mv) ==
  /\ ~is_en_passant(mv) /\ ~is_castling(mv) /\ ~is_promotion(mv)
  /\ Move_piece_type(mv) = Pawn
  /\ abs(rank_of(Move_to(mv)) - rank_of(Move_from(mv))) = 2

\* C7: after make_move returned Ok the en-passant target is present
\* exactly when the move was a plain pawn move of two ranks, and is then the
\* square on the pawn's file one rank behind the landing square: e3 after
\* e2e4 from the initial position, whose FEN is then AfterE2E4Fen.
C7_EnPassantTarget ==
  made_ok =>
    LET mv == last.mv
        to == Move_to(mv)
        behind == IF before.side_to_move = White THEN rank_of(to) - 1 ELSE rank_of(to) + 1
    IN  /\ is_some(position.en_passant) = plain_double_push(mv)
        /\ plain_double_push(mv) =>
             /\ position.en_passant = Some(Square_new(file_of(to), behind))
             /\ file_of(Move_from(mv)) = file_of(to)
        /\ (before = Position_new /\ mv = Move_new(Square_new(4, 1), Square_new(4, 3), Pawn))
             => /\ to_fen(position) = AfterE2E4Fen
                /\ position.en_passant = from_algebraic(<<"e", "3">>)

\* e2e4 from the initial position
C7_Witness ==
  /\ made_ok
  /\ before = Position_new
  /\ last.mv = Move_new(Square_new(4, 1), Square_new(4, 3), Pawn)
  /\ to_fen(position) = AfterE2E4Fen

\* C8: make_move toggles the side to move and adds 1 to the fullmove
\* number exactly when Black moved; so from the initial position, after n
\* makes White is to move iff n is even and the fullmove number is
\* 1 + n \div 2.
C8_SideAndFullmove ==
  /\ made_ok =>
       /\ position.side_to_move = opposite(before.side_to_move)
       /\ position.fullmove_number =
            before.fullmove_number + (IF before.side_to_move = Black THEN 1 ELSE 0)
  /\ (fen_in = None /\ ~failed) =>
       /\ (position.side_to_move = White) = (net % 2 = 0)
       /\ position.fullmove_number = 1 + net \div 2

\* two makes from the initial position
C8_Witness ==
  /\ made_ok /\ fen_in = None /\ ~failed
  /\ net = 2
  /\ position.side_to_move = White
  /\ position.fullmove_number = 2

\* C9: a castling move to g1, c1, g8 or c8 moves the king from its source
\* to its destination and the rook from h1, a1, h8 or a8 to f1, d1, f8 or
\* d8; a castling move to any other square returns InvalidMove.
C9_Castling ==
  (last.op = "make" /\ is_castling(last.mv) /\ ~is_en_passant(last.mv)) =>
    LET from == Move_from(last.mv)
        to == Move_to(last.mv)
        rook_from == CASE to = Square_new(6, 0) -> Square_new(7, 0)
                       [] to = Square_new(2, 0) -> Square_new(0, 0)
                       [] to = Square_new(6, 7) -> Square_new(7, 7)
                       [] to = Square_new(2, 7) -> Square_new(0, 7)
        rook_to == CASE to = Square_new(6, 0) -> Square_new(5, 0)
                     [] to = Square_new(2, 0) -> Square_new(3, 0)
                     [] to = Square_new(6, 7) -> Square_new(5, 7)
                     [] to = Square_new(2, 7) -> Square_new(3, 7)
    IN  IF to \in {Square_new(6, 0), Square_new(2, 0), Square_new(6, 7), Square_new(2, 7)}
        THEN /\ last.result = "Ok"
             /\ piece_at(position.board, to) = piece_at(before.board, from)
             /\ piece_at(position.board, from) = None
             /\ piece_at(position.board, rook_to) = piece_at(before.board, rook_from)
             /\ piece_at(position.board, rook_from) = None
        ELSE last.result = "InvalidMove"

\* White castled kingside: the king is on g1 and the rook on f1
C9_Witness ==
  /\ made_ok /\ is_castling(last.mv)
  /\ fen_in = Some(CastlingFen)
  /\ Move_to(last.mv) = g1
  /\ piece_at(position.board, g1) = Some(Piece_new(White, King))
  /\ piece_at(position.board, f1) = Some(Piece_new(White, Rook))
  /\ piece_at(before.board, h1) = Some(Piece_new(White, Rook))

\* C10: to_fen(from_fen(s)) = s for every canonical FEN s: the strings the
\* behaviours start from, and the string to_fen gives of every Position
\* they reach.
C10_FenRoundTrip ==
  /\ (is_some(fen_in) /\ last.op = "init") =>
       /\ from_fen(unwrap(fen_in)).ok
       /\ to_fen(from_fen(unwrap(fen_in)).val) = unwrap(fen_in)
  /\ position = Position_new => to_fen(position) = StartFen
  /\ LET s == to_fen(position)
     IN  /\ from_fen(s).ok
         /\ to_fen(from_fen(s).val) = s
         /\ from_fen(s).val = [position EXCEPT !.history = <<>>]

\* the FEN of kings and rooks was parsed and written back
C10_Witness ==
  /\ last.op = "init"
  /\ fen_in = Some(CastlingFen)
  /\ to_fen(position) = CastlingFen

\* the squares a piece on `from` may move to by the rules of chess, its
\* king's safety, castling and en passant aside
targets_by_rules(b, color, piece_type, from) ==
  IF piece_type = Pawn
  THEN LET dir == IF color = White THEN 1 ELSE -1
           one == from + 8 * dir
           two == from + 16 * dir
           home == IF color = White THEN 1 ELSE 6
           single == IF one \in Squares /\ one \notin b.occupied THEN {one} ELSE {}
           double == IF single # {} /\ rank_of(from) = home /\ two \notin b.occupied
                     THEN {two} ELSE {}
           enemy == IF color = White THEN b.black ELSE b.white
       IN  single \cup double
             \cup {sq \in enemy : attacks(Pawn, color, from, sq, b.occupied)}
  ELSE {sq \in Squares : attacks(piece_type, color, from, sq, b.occupied)}
         \ (IF color = White THEN b.white ELSE b.black)

\* the moves the rules give a color on a board: one per pair, four for a
\* pawn that reaches the last rank
moves_by_rules(b, color) ==
  UNION {UNION {UNION {IF t = Pawn /\ rank_of(to) = (IF color = White THEN 7 ELSE 0)
                       THEN {new_promotion(from, to, t, promo) : promo \in {Knight, Bishop, Rook, Queen}}
                       ELSE {Move_new(from, to, t)} :
                       to \in targets_by_rules(b, color, t, from)} :
                from \in b.pieces[color][t]} :
         t \in 0..5}

\* C16: generate_moves emits exactly one move for each pair of a source
\* square and a pseudo-legal target square of the color, and four for a
\* pawn that reaches its promotion rank; for White in the initial position
\* these are 20 moves, 16 of pawns and 4 of knights.
C16_OneMovePerPair ==
  /\ \A color \in 0..1 :
       LET moves == generate_moves(position.board, color)
       IN  /\ seq_range(moves) = moves_by_rules(position.board, color)
           /\ Len(moves) = Cardinality(moves_by_rules(position.board, color))
  /\ LET moves == generate_moves(starting_position, White)
     IN  /\ Len(moves) = 20
         /\ Len(SelectSeq(moves, LAMBDA m : Move_piece_type(m) = Pawn)) = 16
         /\ Len(SelectSeq(moves, LAMBDA m : Move_piece_type(m) = Knight)) = 4

\* after a move was made, the side to move has a pawn that promotes
C16_Witness ==
  /\ made_ok
  /\ \E m \in seq_range(generate_moves(position.board, position.side_to_move)) :
       is_promotion(m)
  /\ Len(generate_moves(position.board, position.side_to_move)) > 4

\* C17: every move generate_moves emits has from # to, both squares in
\* 0..63, a piece of the color and of the move's piece type on the from
\* square, and no piece of the color on the to square.
C17_EmittedMovesSound ==
  \A color \in 0..1 :
    LET moves == generate_moves(position.board, color)
    IN  \A i \in 1..Len(moves) :
          LET from == Move_from(moves[i])
              to == Move_to(moves[i])
          IN  /\ from # to
              /\ from \in 0..63 /\ to \in 0..63
              /\ piece_at(position.board, from)
                   = Some(Piece_new(color, Move_piece_type(moves[i])))
              /\ to \notin color_bitboard(position.board, color)

\* after a capture both colors still have moves, and one of them is a capture
C17_Witness ==
  /\ made_ok
  /\ is_some(piece_at(before.board, Move_to(last.mv)))
  /\ generate_moves(position.board, White) # <<>>
  /\ \E m \in seq_range(generate_moves(position.board, Black)) :
       Move_to(m) \in position.board.white

\* the squares from `from` in one direction up to and including the first
\* occupied one
ray_by_rules(from, dr, df, occupancy) ==
  LET at(k) == Square_new(file_of(from) + k * df, rank_of(from) + k * dr)
      on_board(k) == /\ rank_of(from) + k * dr \in 0..7
                     /\ file_of(from) + k * df \in 0..7
  IN  {at(k) : k \in {n \in 1..7 : /\ on_board(n)
                                   /\ \A j \in 1..(n - 1) : at(j) \notin occupancy}}

\* C19: the ray-walk rook (bishop) attack set holds, along each of its four
\* orthogonal (diagonal) directions, every square up to and including the
\* first occupied one and none beyond, never the source and never a square
\* off the rays; a rook on a1 of an empty board attacks the 14 other
\* squares of the a-file and the first rank, and a bishop on a1 with b2
\* occupied attacks b2 only.
C19_RayWalk ==
  /\ \A sq \in Squares :
       LET occupancy == position.board.occupied
       IN  /\ get_rook_attacks(sq, occupancy)
                = UNION {ray_by_rules(sq, d[1], d[2], occupancy) :
                           d \in {<<1, 0>>, <<-1, 0>>, <<0, 1>>, <<0, -1>>}}
           /\ get_bishop_attacks(sq, occupancy)
                = UNION {ray_by_rules(sq, d[1], d[2], occupancy) :
                           d \in {<<1, 1>>, <<1, -1>>, <<-1, 1>>, <<-1, -1>>}}
           /\ sq \notin get_rook_attacks(sq, occupancy) \cup get_bishop_attacks(sq, occupancy)
  /\ get_rook_attacks(0, {}) = ({s \in Squares : file_of(s) = 0 \/ rank_of(s) = 0} \ {0})
  /\ Cardinality(get_rook_attacks(0, {})) = 14
  /\ get_bishop_attacks(0, {9}) = {9}

\* a rook on its corner with one open and one closed ray
C19_Witness ==
  /\ made_ok
  /\ a1 \in piece_bitboard(position.board, White, Rook)
  /\ Cardinality(get_rook_attacks(a1, position.board.occupied)) > 2
  /\ Cardinality(get_rook_attacks(a1, position.board.occupied)) < 14
  /\ \E sq \in get_rook_attacks(a1, position.board.occupied) : sq \in position.board.occupied

\* the plain moves Move::new builds from an occupied square of the board
plain_moves(b) ==
  {Move_new(from, to, unwrap(piece_at(b, from)).piece_type) :
     from \in b.occupied, to \in Squares}

\* C20: is_capture(board) is true exactly when the destination holds a
\* piece of the color opposing the moving piece, or the move carries the
\* en-passant flag.
C20_IsCapture ==
  \A mv \in plain_moves(position.board) \cup move_inputs(position) :
    is_capture(mv, position.board)
      = \/ is_en_passant(mv)
        \/ /\ is_some(piece_at(position.board, Move_to(mv)))
           /\ unwrap(piece_at(position.board, Move_to(mv))).color
                # unwrap(piece_at(position.board, Move_from(mv))).color

\* C18: for every square and occupancy, after magic::init() the lookups
\* get_bishop_attacks and get_rook_attacks of magic.rs return the attack
\* set of the ray-walk functions of magic_simple.rs.
C18_MagicEqualsRayWalk ==
  /\ \A sq \in Squares :
       magic_get_bishop_attacks(sq, position.board.occupied)
         = get_bishop_attacks(sq, position.board.occupied)
  /\ \A sq \in Squares :
       magic_get_rook_attacks(sq, position.board.occupied)
         = get_rook_attacks(sq, position.board.occupied)

searched == last.op = "search"

\* whether make_move(mv) leaves the king of the side that moved attacked
leaves_king_attacked(pos, mv) ==
  LET after == make_move(pos, mv).self
  IN  \E king \in after.board.pieces[pos.side_to_move][King] :
        attacked_by_rules(after.board, king, opposite(pos.side_to_move))

\* the legal moves of the rules, but for castling: where castling is legal,
\* so is the king's step onto the square it crosses
legal_moves_by_rules(pos) ==
  {mv \in moves_by_rules(pos.board, pos.side_to_move) \cup en_passant_inputs(pos) :
     ~leaves_king_attacked(pos, mv)}

\* the side to move is in check and has no legal move
checkmated_by_rules(pos) ==
  /\ \E king \in pos.board.pieces[pos.side_to_move][King] :
       attacked_by_rules(pos.board, king, opposite(pos.side_to_move))
  /\ legal_moves_by_rules(pos) = {}

\* C11: on a position whose side to move is checkmated, search with depth 1
\* returns a score below -10000.
C11_MateScore ==
  (searched /\ unwrap(found).depth = 1 /\ checkmated_by_rules(position)) =>
    /\ ~unwrap(found).outcome.val.panic
    /\ unwrap(found).outcome.val.score < -10000

\* -alpha_beta(child, depth - 1, full window) for the child that mv leads to
child_score(pos, mv, depth) ==
  -alpha_beta(make_move(pos, mv).self, depth - 1, MinScore, MaxScore,
              SearchStats_default).score

\* the index of the first move, in generation order, whose child score is
\* the greatest
first_best(pos, moves, depth) ==
  CHOOSE i \in 1..Len(moves) :
    /\ \A j \in 1..Len(moves) : child_score(pos, moves[j], depth) <= child_score(pos, moves[i], depth)
    /\ \A j \in 1..(i - 1) : child_score(pos, moves[j], depth) < child_score(pos, moves[i], depth)

\* what C12 says of a search that returned
selected_as_claimed(pos, depth, result) ==
  LET moves == Position_generate_moves(pos)
  IN  IF moves # <<>>
      THEN /\ result.best_move = Some(moves[first_best(pos, moves, depth)])
           /\ result.score = child_score(pos, moves[first_best(pos, moves, depth)], depth)
      ELSE /\ result.best_move = None
           /\ result.score = evaluate_game_over(pos)

\* C12: search on a position with at least one generated move returns
\* Some(m), m the first move in generation order whose
\* -alpha_beta(child, depth - 1, full window) is the greatest, and that
\* score; on a position with no generated move it returns best_move None
\* and the game-over score.
C12_FirstBestMove ==
  searched =>
    /\ ~unwrap(found).outcome.val.panic
    /\ selected_as_claimed(position, unwrap(found).depth, unwrap(found).outcome.val)

deepened == last.op = "deepen"

\* the depth C15 has the loop stop after: the first depth in 1..max_depth
\* whose score is a mate score, max_depth when there is none
stop_depth(pos, max_depth) ==
  LET mates == {d \in 1..max_depth : abs(search(pos, d).score) > 10000}
  IN  IF mates = {} THEN max_depth
      ELSE CHOOSE d \in mates : \A e \in mates : d <= e

\* what C15 says of the searches run and of the result returned
deepened_as_claimed(pos, max_depth, ran, outcome) ==
  LET stop == stop_depth(pos, max_depth)
  IN  /\ Len(ran) = stop
      /\ \A d \in 1..stop : ran[d] = search(pos, d)
      /\ outcome = Ok(ran[stop])
      /\ (~is_game_over(pos) /\ abs(ran[stop].score) <= 10000) =>
           outcome.val.depth = max_depth

\* C15: iterative_deepening with max_depth >= 1 runs the depths 1, 2, ...
\* in order, stops after the first depth whose score is above 10000 in
\* absolute value or after max_depth, and returns the result of the last
\* depth it ran; without a mate score, on a position that is not terminal,
\* the depth of the result is max_depth.
C15_IterativeDeepening ==
  (deepened /\ unwrap(found).depth >= 1) =>
    /\ \A i \in 1..Len(unwrap(found).ran) : ~unwrap(found).ran[i].panic
    /\ deepened_as_claimed(position, unwrap(found).depth, unwrap(found).ran,
                           unwrap(found).outcome)

\* the last line read was a go command
go_handled ==
  /\ last.op = "line"
  /\ split_whitespace(last.mv) # <<>>
  /\ split_whitespace(last.mv)[1] = <<"g", "o">>

\* the text of a move: two squares, and for a promotion one of n, b, r, q
is_move_text(m) ==
  /\ Len(m) \in {4, 5}
  /\ m[1] \in {"a", "b", "c", "d", "e", "f", "g", "h"}
  /\ m[2] \in {"1", "2", "3", "4", "5", "6", "7", "8"}
  /\ m[3] \in {"a", "b", "c", "d", "e", "f", "g", "h"}
  /\ m[4] \in {"1", "2", "3", "4", "5", "6", "7", "8"}
  /\ Len(m) = 5 => m[5] \in {"n", "b", "r", "q"}

\* a decimal number, with a sign if signed
is_number_text(t, signed) ==
  /\ t # <<>>
  /\ IF signed /\ t[1] = "-" THEN Len(t) > 1 /\ \A i \in 2..Len(t) : is_digit(t[i])
     ELSE \A i \in 1..Len(t) : is_digit(t[i])

\* `bestmove <from><to>[promo]`, then `info depth .. score cp .. nodes ..`
is_bestmove_with_info(response) ==
  LET lines == split(response, "\n")
      first == split_whitespace(lines[1])
      second == split_whitespace(lines[2])
  IN  /\ Len(lines) = 2
      /\ Len(first) = 2 /\ first[1] = <<"b", "e", "s", "t", "m", "o", "v", "e">> /\ is_move_text(first[2])
      /\ Len(second) = 8
      /\ second[1] = <<"i", "n", "f", "o">> /\ second[2] = <<"d", "e", "p", "t", "h">> /\ is_number_text(second[3], FALSE)
      /\ second[4] = <<"s", "c", "o", "r", "e">> /\ second[5] = <<"c", "p">> /\ is_number_text(second[6], TRUE)
      /\ second[7] = <<"n", "o", "d", "e", "s">> /\ is_number_text(second[8], FALSE)

\* C13: go answers `bestmove 0000` exactly when the side to move has no
\* legal move (checkmate or stalemate); otherwise it answers
\* `bestmove <from><to>[promo]` followed by
\* `info depth .. score cp .. nodes ..`.
C13_BestMoveAnswer ==
  go_handled =>
    /\ last.result = "Ok"
    /\ uci.stdout # <<>>
    /\ LET response == uci.stdout[Len(uci.stdout)]
       IN  IF legal_moves_by_rules(position) = {}
           THEN response = <<"b", "e", "s", "t", "m", "o", "v", "e", " ", "0", "0", "0", "0">>
           ELSE is_bestmove_with_info(response)

\* the last line read was a command that failed on a malformed FEN or on a
\* move from an empty square
failed_as_claimed ==
  /\ last.op = "line"
  /\ LET r == handle_command([position |-> before, search_params |-> SearchParams_default],
                             last.mv)
     IN  ~r.panic /\ ~r.result.ok /\ r.result.err \in {"Invalid FEN: {}", "No piece at {}"}

\* C14: when a command fails (a malformed FEN, a move list that names an
\* empty source square), the loop reports a message and goes on reading;
\* only quit or the end of the input ends it.
C14_ErrorsAreRecoverable ==
  /\ failed_as_claimed =>
       /\ uci.status = "reading"
       /\ Len(uci.stdout) + Len(uci.stderr) > 0
  /\ uci.status # "reading" =>
       (last.op = "eof" \/ (last.op = "line" /\ last.mv = QuitLine))

\* a file letter a-h followed by a rank digit 1-8
is_square_name(s) ==
  /\ Len(s) = 2
  /\ s[1] \in {"a", "b", "c", "d", "e", "f", "g", "h"}
  /\ s[2] \in {"1", "2", "3", "4", "5", "6", "7", "8"}

\* C21: Square::from_algebraic(s) is Some(sq) exactly when s is a file
\* letter a-h followed by a rank digit 1-8, and then sq.to_algebraic() = s;
\* it is None for every other string; and from_algebraic(to_algebraic(sq))
\* is sq for every square.
C21_SquareAlgebraic ==
  \A call \in found :
    /\ call.call = "from_algebraic" =>
         /\ call.value # None <=> is_square_name(call.arg)
         /\ call.value # None => to_algebraic(unwrap(call.value)) = call.arg
    /\ call.call = "to_algebraic" => from_algebraic(call.value) = Some(call.arg)

\* is_insufficient_material was called on the board
material_checked == \E call \in found : call.call = "is_insufficient_material"

\* the pieces on the board, as the set of <<square, piece>>
pieces_on(b) == {<<sq, unwrap(piece_at(b, sq))>> : sq \in b.occupied}

\* C22: is_insufficient_material is true when only the two kings remain or
\* when the two kings and exactly one knight or bishop remain, and false
\* whenever a pawn, a rook or a queen is on the board.
C22_InsufficientMaterial ==
  material_checked =>
    LET pieces == pieces_on(position.board)
        kings == {p \in pieces : p[2].piece_type = King}
        both_kings == \A c \in {White, Black} : \E p \in kings : p[2].color = c
        value == unwrap(found).value
    IN  /\ (Cardinality(pieces) = 2 /\ Cardinality(kings) = 2 /\ both_kings) => value
        /\ (/\ Cardinality(pieces) = 3 /\ Cardinality(kings) = 2 /\ both_kings
            /\ \E p \in pieces : p[2].piece_type \in {Knight, Bishop}) => value
        /\ (\E p \in pieces : p[2].piece_type \in {Pawn, Rook, Queen}) => ~value

\* evaluate was called on the position
evaluated == \E call \in found : call.call = "evaluate"

\* the table of a piece type
table_of(piece_type) ==
  CASE piece_type = Pawn -> PAWN_TABLE
    [] piece_type = Knight -> KNIGHT_TABLE
    [] piece_type = Bishop -> BISHOP_TABLE
    [] piece_type = Rook -> ROOK_TABLE
    [] piece_type = Queen -> QUEEN_TABLE
    [] piece_type = King -> KING_TABLE

\* what one piece on one square adds to S: its value and table[sq] for
\* White, minus its value and table[63 - sq] for Black
worth(sq, piece) ==
  IF piece.color = White
  THEN piece_value(piece.piece_type) + table_of(piece.piece_type)[sq + 1]
  ELSE -(piece_value(piece.piece_type) + table_of(piece.piece_type)[63 - sq + 1])

RECURSIVE total_worth(_)
total_worth(pieces) ==
  IF pieces = {} THEN 0
  ELSE LET p == CHOOSE x \in pieces : TRUE
       IN  worth(p[1], p[2]) + total_worth(pieces \ {p})

\* C23: evaluate is S for White to move and -S for Black to move, S the
\* material balance plus the table values of the White pieces minus those
\* of the Black pieces (on the mirrored square); the same board with the
\* other side to move evaluates to the negation; and the initial position
\* evaluates within [-50, 50].
C23_Evaluate ==
  evaluated =>
    LET S == total_worth(pieces_on(position.board))
        value == unwrap(found).value
    IN  /\ value = IF position.side_to_move = White THEN S ELSE -S
        /\ evaluate([position EXCEPT !.side_to_move = opposite(position.side_to_move)])
             = -value
        /\ position.board = starting_position => (-50 <= value /\ value <= 50)

\* evaluate was called with Black to move on a board that is not balanced
C23_Witness ==
  /\ evaluated
  /\ position.side_to_move = Black
  /\ unwrap(found).value > 0

\* alpha_beta was called on the position
alpha_beta_called == last.op = "alpha_beta"

\* C24: alpha_beta(pos, depth, alpha, beta) with alpha <= beta returns a
\* score s with alpha <= s <= beta, also when the position is game-over.
C24_ScoreInWindow ==
  alpha_beta_called =>
    \A call \in found :
      /\ ~call.outcome.panic
      /\ call.alpha <= call.outcome.score
      /\ call.outcome.score <= call.beta

\* quiescence_search was called on the position
quiesced == last.op = "quiescence_search"

\* the longest chain of generated captures from pos, each applied by
\* make_move with Ok: a bound on the recursion depth of quiescence_search
RECURSIVE capture_depth(_)
capture_depth(pos) ==
  LET after == {make_move(pos, c[1]) : c \in seq_range(scored_captures_of(pos))}
      below == {1 + capture_depth(made.self) : made \in {x \in after : x.result = "Ok"}}
  IN  IF below = {} THEN 0 ELSE CHOOSE d \in below : \A e \in below : e <= d

\* C30: quiescence_search terminates: every capture it applies before it
\* calls itself leaves one piece fewer on the board, and the depth of its
\* recursion is at most the number of pieces of the position it was called
\* on.
C30_QuiescenceTerminates ==
  /\ \A c \in seq_range(scored_captures_of(position)) :
       LET made == make_move(position, c[1])
       IN  made.result = "Ok" =>
             Cardinality(made.self.board.occupied)
               < Cardinality(position.board.occupied)
  /\ quiesced =>
       /\ \A call \in found : call.outcome.stats.qnodes_searched >= 1
       /\ Cardinality(position.board.occupied) <= SmallBoard + 1 =>
            capture_depth(position) <= Cardinality(position.board.occupied)

\* quiescence_search was called on a position with a capture to make, and
\* called itself
C30_Witness ==
  /\ quiesced
  /\ scored_captures_of(position) # <<>>
  /\ \E call \in found : call.outcome.stats.qnodes_searched > 1

\* the last call was a make_move that returned Err
make_move_failed == last.op = "make" /\ last.result # "Ok"

\* C25: a make_move that returns Err (a castling move to a square other
\* than c1, g1, c8, g8) leaves the Position as it was before the call:
\* board, castling rights, en-passant target, clocks, side to move and
\* history, so that a later undo_move undoes the move made before it.
C25_FailedMoveChangesNothing ==
  make_move_failed =>
    /\ position.board = before.board
    /\ position.castling_rights = before.castling_rights
    /\ position.en_passant = before.en_passant
    /\ position.halfmove_clock = before.halfmove_clock
    /\ position.fullmove_number = before.fullmove_number
    /\ position.side_to_move = before.side_to_move
    /\ Len(position.history) = Len(before.history)

\* each side has exactly one king
one_king_each(pos) ==
  \A color \in {White, Black} :
    Cardinality(piece_bitboard(pos.board, color, King)) = 1

\* C26: a search of depth >= 1 from a position in which each side has
\* exactly one king never tests a position whose side to move has no king
\* for game-over, so it does not end in the "King not found" panic.
C26_NoKingNotFound ==
  (searched /\ one_king_each(position)) => last.result # "Panic"

\* the last line read was this `position` command, and it returned Ok
positioned_by(line) == last.op = "line" /\ last.mv = line /\ last.result = "Ok"

\* C27: the moves of a `position ... moves` command are made as the chess
\* moves they name: e2e4 moves the pawn, e1g1 played while White may castle
\* short also moves the rook from h1 to f1, and a pawn capture onto the
\* en-passant target removes the captured pawn.
C27_MoveListAsChess ==
  /\ positioned_by(StartposE2E4Line) =>
       /\ piece_at(position.board, Square_new(4, 3)) = Some(Piece_new(White, Pawn))
       /\ piece_at(position.board, Square_new(4, 1)) = None
  /\ positioned_by(CastleLine) =>
       /\ piece_at(position.board, g1) = Some(Piece_new(White, King))
       /\ piece_at(position.board, f1) = Some(Piece_new(White, Rook))
       /\ piece_at(position.board, h1) = None
  /\ positioned_by(EnPassantLine) =>
       /\ piece_at(position.board, Square_new(3, 5)) = Some(Piece_new(White, Pawn))
       /\ piece_at(position.board, Square_new(4, 4)) = None
       /\ piece_at(position.board, Square_new(3, 4)) = None

\* the last line read was a `go depth D` command
go_depth_handled ==
  last.op = "line" /\ last.mv \in {GoDepth0Line, GoDepth1Line, GoDepth3Line}

\* C28: for every depth `go depth D` can set, D = 0 included, the search
\* never subtracts 1 from a depth of 0.
C28_DepthNeverUnderflows ==
  go_depth_handled =>
    /\ last.result # "Wrapped"
    /\ last.result = "Panic" =>
         uci.stderr[Len(uci.stderr)] # "attempt to subtract with overflow"

\* the last line read was a `position` command that returned Err
position_failed ==
  /\ last.op = "line"
  /\ last.result = "Err"
  /\ Len(last.mv) >= 8
  /\ SubSeq(last.mv, 1, 8) = <<"p", "o", "s", "i", "t", "i", "o", "n">>

\* C29: when a `position` command fails (a malformed FEN, a move that is
\* too short, names an invalid square or an empty source square), the
\* engine's position is the one it had before the command.
C29_FailedPositionChangesNothing == position_failed => position = before

=============================================================================
